---- MODULE Spec2Model ----
(***************************************************************************)
(* Model of dzlab/search-engine.                                           *)
(*                                                                         *)
(* Broker (src/broker/broker.go): NewBroker groups the configured          *)
(* Searchers by shard; Broker.Search calls Query Understanding, routes the *)
(* structured query to one shard (hash of the first keyword) or to every   *)
(* shard (no keywords), fans out one goroutine per target Searcher, waits  *)
(* for all of them, and returns the de-duplicated concatenation of the     *)
(* result lists in arrival order.                                          *)
(*                                                                         *)
(* Indexer (src/indexer/indexer.go, storage.go): the methods of an Indexer *)
(* under its mutex, CommitAndUpload with its lock file, and UploadSegment  *)
(* of S3Storage and LocalFileStorage.                                      *)
(*                                                                         *)
(* Query Understanding (src/query_understanding, src/unnamed/part_004 to   *)
(* part_006): the stages, the StageRegistry, PipelineExecutor,             *)
(* ProcessClientQuery, and LoadConfig with ValidateConfiguration.          *)
(***************************************************************************)
EXTENDS Integers, Sequences, FiniteSets, TLC

(***************************************************************************)
(* Bounds of the model.                                                    *)
(***************************************************************************)
MaxSearchers == 2
MaxResults == 1

ShardIDs == {0, 1, 2}
DocIDs == {"a", "b"}

(***************************************************************************)
(* Errors.  NoErr is Go's nil error.                                       *)
(***************************************************************************)
NoErr == "nil"
QUErr == "failed to process query"
NoShardsErr == "no searchers available"
SearcherErr == "searcher failed"
Canceled == "context canceled"

(***************************************************************************)
(* Keywords are strings, modelled as sequences of Unicode code points (the *)
(* runes `for _, r := range keyword` yields).                              *)
(*   KwA = "a", KwB = "b", KwMinInt = "atixvkzwitbdzy"                     *)
(* KwMinInt is a 14-letter keyword whose 64-bit hash is exactly -2^63.     *)
(***************************************************************************)
KwA == <<97>>
KwB == <<98>>
KwMinInt == <<97, 116, 105, 120, 118, 107, 122, 119, 105, 116, 98, 100, 122, 121>>

KeywordLists == {<<>>, <<KwA>>, <<KwB, KwA>>, <<KwMinInt>>}

(***************************************************************************)
(* Go's int on a 64-bit build: two's complement, wrapping on overflow.     *)
(* TLC's integers are 32 bits wide, so an int is a little-endian sequence  *)
(* of NumLimbs = 4 limbs of 16 bits.                                       *)
(***************************************************************************)
IntBits == 64
HashMultiplier == 31
LimbBase == 2 ^ 16
NumLimbs == IntBits \div 16

IntZero == <<0, 0, 0, 0>>

\* hash*31 + int(r), wrapping at 2^IntBits
MulAdd(h, r) ==
  LET t1 == h[1] * HashMultiplier + r
      t2 == h[2] * HashMultiplier + t1 \div LimbBase
      t3 == h[3] * HashMultiplier + t2 \div LimbBase
      t4 == h[4] * HashMultiplier + t3 \div LimbBase
  IN  <<t1 % LimbBase, t2 % LimbBase, t3 % LimbBase, t4 % LimbBase>>

\* -hash, wrapping: the most negative int is its own negation
Negate(h) ==
  LET t1 == (LimbBase - 1 - h[1]) + 1
      t2 == (LimbBase - 1 - h[2]) + t1 \div LimbBase
      t3 == (LimbBase - 1 - h[3]) + t2 \div LimbBase
      t4 == (LimbBase - 1 - h[4]) + t3 \div LimbBase
  IN  <<t1 % LimbBase, t2 % LimbBase, t3 % LimbBase, t4 % LimbBase>>

\* hash < 0
IsNegative(h) == h[NumLimbs] >= LimbBase \div 2

\* the value of a non-negative int modulo n
Modulo(h, n) ==
  LET r4 == h[4] % n
      r3 == (r4 * LimbBase + h[3]) % n
      r2 == (r3 * LimbBase + h[2]) % n
  IN  (r2 * LimbBase + h[1]) % n

\* Go's hash % n: the remainder has the sign of the dividend
GoRem(h, n) ==
  IF IsNegative(h) THEN 0 - Modulo(Negate(h), n) ELSE Modulo(h, n)

RECURSIVE HashFrom(_, _, _)
HashFrom(kw, i, h) ==
  IF i > Len(kw) THEN h ELSE HashFrom(kw, i + 1, MulAdd(h, kw[i]))

\* the routing hash of a keyword, after the `if hash < 0 { hash = -hash }`
KeywordHash(kw) ==
  LET h == HashFrom(kw, 1, IntZero)
  IN  IF IsNegative(h) THEN Negate(h) ELSE h

\* hash % len(availableShardIDs)
ShardIndex(kw, n) == GoRem(KeywordHash(kw), n)

(***************************************************************************)
(* Searchers.  A Searcher handle is its index in the list given to         *)
(* NewBroker.  A call of s.Search returns a result list or an error; the   *)
(* Title of a result stands for its payload (Title, URL, Score) and is     *)
(* different for every result any Searcher returns.                        *)
(***************************************************************************)
SearchResult(id, s, i) == [ID |-> id, Title |-> <<s, i>>]

IDLists == UNION {[1..n -> DocIDs] : n \in 0..MaxResults}

ResultList(s, ids) == [i \in 1..Len(ids) |-> SearchResult(ids[i], s, i)]

Success(results) == [results |-> results, err |-> NoErr]
Failure(err) == [results |-> <<>>, err |-> err]

\* what a call of Searcher s may return
SearchOutcomes(s) ==
  {Success(ResultList(s, ids)) : ids \in IDLists} \cup {Failure(SearcherErr)}

\* what QueryUnderstandingService.Process may return
QUOutcomes ==
  {[sq |-> [Keywords |-> ks], err |-> NoErr] : ks \in KeywordLists}
    \cup {[sq |-> [Keywords |-> <<>>], err |-> QUErr]}

NoQuery == [Keywords |-> <<>>]
NoReturn == [results |-> <<>>, err |-> "none"]
NoOutcome == [results |-> <<>>, err |-> "none"]

VARIABLES
  searchers,         \* the Searcher list given to NewBroker: shard id of each
  searchFunc,        \* per Searcher, the outcomes its Search may return
  searchersByShard,  \* Broker.searchersByShard
  pc,                \* Broker.Search: "idle", "fanout", "done", "panicked"
  quErr,             \* Search's err, the error Process returned
  ctxDone,           \* the request context has been cancelled
  structuredQuery,   \* Search's structuredQuery
  targetShardIDs,    \* Search's targetShardIDs
  gstate,            \* per Searcher, its goroutine: "none", "spawned", "inflight", "done"
  wg,                \* the WaitGroup counter
  calls,             \* per Searcher, the queries its Search was called with
  allResults,        \* Search's allResults
  errChan,           \* contents of errChan
  errCap,            \* capacity of errChan
  ret,               \* what Search returned: [results, err]
  returned,          \* per Searcher, what its Search call returned
  arrival            \* the Searchers whose results were appended, in order

requestVars == <<pc, quErr, ctxDone, structuredQuery, targetShardIDs, gstate, wg,
                 calls, allResults, errChan, errCap, ret, returned, arrival>>

VARIABLES
  storage,           \* Indexer.storage: "s3" (S3Storage) or "local" (LocalFileStorage)
  indexPath,         \* per Indexer, the base name of Indexer.indexPath
  segmentPathInfo,   \* per Indexer, what os.Stat finds at Indexer.indexPath
  index,             \* per Indexer, the documents of Indexer.index: id -> data
  closed,            \* per Indexer, Indexer.index has been closed
  mu,                \* per Indexer, the caller holding Indexer.mu, or NoCaller
  lockFile,          \* who created .indexer.lock of the parent directory, or NoCaller
  ipc,               \* per caller, where its Indexer call stands
  op,                \* per caller, the call it makes: method, Indexer, arguments
  frame,             \* per caller, the locals of its call, and whether another
                     \* caller's call was in progress during it
  segmentStore,      \* the Segment Store: object key -> content
  result,            \* per caller, what its last call returned
  now,               \* the wall clock, in seconds
  opCount,           \* number of Indexer calls made so far
  uploaded,          \* the prefixes of the UploadSegment calls that returned nil, in order
  searcherIndex,     \* Searcher.index, the index the Searcher serves: id -> data
  segmentsDir,       \* the files of the Searcher's ./segments directory
  refreshed          \* the uploaded prefixes that existed at the Searcher's last refresh

indexerVars == <<storage, indexPath, segmentPathInfo, index, closed, mu, lockFile, ipc, op, frame,
                 segmentStore, result, now, opCount, uploaded>>

searcherVars == <<searcherIndex, segmentsDir, refreshed>>

VARIABLES
  stages,            \* StageRegistry.stages: stage name -> stage implementation
  registryMu,        \* the caller holding StageRegistry.mu for writing, or NoCaller
  registrants,       \* per caller of Register: where it stands, its arguments and result
  cfg,               \* the config.Configuration read from the YAML file
  loaded,            \* what LoadConfig returned
  rawQuery,          \* the raw query of the client
  qpc,               \* where the processing of the raw query stands
  pipeline,          \* ExecutePipeline: the pipeline argument
  stageConfigs,      \* ExecutePipeline: the stageConfigs argument
  currentQuery,      \* ExecutePipeline: the local currentQuery
  executed,          \* the calls of QueryStage.Process made so far, in order
  processed          \* what ProcessClientQuery or ExecutePipeline returned

planningVars == <<stages, registryMu, registrants, cfg, loaded, rawQuery, qpc,
                  pipeline, stageConfigs, currentQuery, executed, processed>>

VARIABLES
  handler,           \* the Broker's /search handler: the request it serves and its response
  refreshTask,       \* the goroutine running Searcher.UpdateIndex and its context
  searchResponse,    \* what Searcher.SearchHandler wrote for the last request
  requests           \* the locals of the Broker.Search calls running at the same time

serviceVars == <<handler, refreshTask, searchResponse, requests>>

brokerVars == <<searchers, searchFunc, searchersByShard>>

vars == <<brokerVars, requestVars, indexerVars, searcherVars, planningVars, serviceVars>>

\* the part of the state Broker.Search does not touch
writePathVars == <<indexerVars, searcherVars>>

(***************************************************************************)
(* The write path: Indexers, the callers of their methods, the Segment     *)
(* Store and a Searcher.  A document is an id with its data; the content   *)
(* of a file of an index directory stands for the documents it holds.      *)
(***************************************************************************)
NoCaller == 0
Absent == "absent"
DocKeys == {"d", "e"}
Versions == {"v1", "v2"}

\* the index bleve.New / bleve.NewMemOnly creates
EmptyIndex == [k \in DocKeys |-> Absent]

Indexers == DOMAIN indexPath
Callers == DOMAIN ipc

NoOp == [name |-> "none", ix |-> 0, id |-> "", data |-> "", docs |-> <<>>]
NoFrame == [prefix |-> <<>>, file |-> 0, attempt |-> 0, slept |-> <<>>,
            pending |-> {}, err |-> NoErr, start |-> 0, overlapped |-> FALSE]

\* NewSearcher: an empty in-memory index, nothing downloaded
SearcherInit ==
  /\ searcherIndex = EmptyIndex
  /\ segmentsDir = {}
  /\ refreshed = <<>>

\* what os.Stat(segmentPath) can find: a directory, nothing, a regular file
IsDir == "directory"
NotExist == "not exist"
RegularFile == "regular file"
PathInfos == {IsDir, NotExist, RegularFile}

\* NewIndexer for each path of paths, all with the same storage and the same
\* parent directory, and no call running; infos is what may be on disk at an
\* index path
IndexerInitAt(kinds, paths, callers, infos) ==
  /\ storage \in kinds
  /\ indexPath = paths
  /\ segmentPathInfo \in [DOMAIN paths -> infos]
  /\ index = [i \in DOMAIN paths |-> EmptyIndex]
  /\ closed = [i \in DOMAIN paths |-> FALSE]
  /\ mu = [i \in DOMAIN paths |-> NoCaller]
  /\ lockFile = NoCaller
  /\ ipc = [c \in 1..callers |-> "idle"]
  /\ op = [c \in 1..callers |-> NoOp]
  /\ frame = [c \in 1..callers |-> NoFrame]
  /\ segmentStore = <<>>
  /\ result = [c \in 1..callers |-> "none"]
  /\ now = 0
  /\ opCount = 0
  /\ uploaded = <<>>

\* every index path is the directory bleve created there
IndexerInit(kinds, paths, callers) == IndexerInitAt(kinds, paths, callers, {IsDir})

\* nothing registered, nothing loaded, no query
NoPlanning ==
  /\ stages = <<>>
  /\ registryMu = NoCaller
  /\ registrants = <<>>
  /\ cfg = <<>>
  /\ loaded = <<>>
  /\ rawQuery = <<>>
  /\ qpc = "idle"
  /\ pipeline = <<>>
  /\ stageConfigs = <<>>
  /\ currentQuery = <<>>
  /\ executed = <<>>
  /\ processed = <<>>

\* no HTTP request, no refresh task, no concurrent Search
NoServices ==
  /\ handler = <<>>
  /\ refreshTask = <<>>
  /\ searchResponse = <<>>
  /\ requests = <<>>

\* no Indexer and no caller
NoWritePath == IndexerInit({"local"}, <<>>, 0) /\ SearcherInit

Handles == 1..Len(searchers)

(***************************************************************************)
(* NewBroker: append every Searcher to the list of the shard it reports.   *)
(***************************************************************************)
RECURSIVE GroupByShard(_, _, _)
GroupByShard(ss, i, m) ==
  IF i > Len(ss) THEN m
  ELSE LET shardID == ss[i]
       IN  GroupByShard(ss, i + 1,
             IF shardID \in DOMAIN m
             THEN [m EXCEPT ![shardID] = Append(@, i)]
             ELSE [k \in DOMAIN m \cup {shardID} |->
                     IF k = shardID THEN <<i>> ELSE m[k]])

EmptyMap == [k \in {} |-> <<>>]

\* a NewBroker that puts every Searcher at the head of its shard's list
NewBrokerNewestFirst(ss) ==
  LET m == GroupByShard(ss, 1, EmptyMap)
  IN  [k \in DOMAIN m |-> [j \in 1..Len(m[k]) |-> m[k][Len(m[k]) + 1 - j]]]

NewBroker(ss) == GroupByShard(ss, 1, EmptyMap)

SearcherLists == UNION {[1..n -> ShardIDs] : n \in 0..MaxSearchers}

\* the orders in which `for shardID := range b.searchersByShard` may visit the keys
MapOrders(m) ==
  LET n == Cardinality(DOMAIN m)
  IN  {p \in [1..n -> DOMAIN m] : \A i, j \in 1..n : i # j => p[i] # p[j]}

RECURSIVE SearchersOf(_, _, _)
\* the Searchers the dispatch loop starts a goroutine for, in order
SearchersOf(m, targets, i) ==
  IF i > Len(targets) THEN <<>>
  ELSE (IF targets[i] \in DOMAIN m THEN m[targets[i]] ELSE <<>>)
         \o SearchersOf(m, targets, i + 1)

\* a capacity that counts the target shards instead of their Searchers
TargetShardCount(m, targets, i) == Len(targets)

RECURSIVE TotalTargetSearchers(_, _, _)
TotalTargetSearchers(m, targets, i) ==
  IF i > Len(targets) THEN 0
  ELSE (IF targets[i] \in DOMAIN m THEN Len(m[targets[i]]) ELSE 0)
         + TotalTargetSearchers(m, targets, i + 1)

Range(f) == {f[x] : x \in DOMAIN f}

(***************************************************************************)
(* Merge: keep the first result of every ID, in order.                     *)
(***************************************************************************)
RECURSIVE DedupFrom(_, _, _, _)
DedupFrom(all, i, seenIDs, out) ==
  IF i > Len(all) THEN out
  ELSE IF all[i].ID \in seenIDs THEN DedupFrom(all, i + 1, seenIDs, out)
  ELSE DedupFrom(all, i + 1, seenIDs \cup {all[i].ID}, Append(out, all[i]))

\* a merge that keeps the last result of every ID instead of the first
RECURSIVE DedupLastFrom(_, _, _, _)
DedupLastFrom(all, i, seenIDs, out) ==
  IF i = 0 THEN out
  ELSE IF all[i].ID \in seenIDs THEN DedupLastFrom(all, i - 1, seenIDs, out)
  ELSE DedupLastFrom(all, i - 1, seenIDs \cup {all[i].ID}, <<all[i]>> \o out)

DeduplicateKeepLast(all) == DedupLastFrom(all, Len(all), {}, <<>>)

Deduplicate(all) == DedupFrom(all, 1, {}, <<>>)

\* a merge that fails the request as soon as one Searcher reported an error
MergeReturnFailOnError(all, errs) ==
  IF Len(errs) > 0 THEN Failure(errs[1])
  ELSE [results |-> Deduplicate(all), err |-> NoErr]

\* what Search returns after wg.Wait(): errors in errChan are only logged
MergeReturn(all, errs) == [results |-> Deduplicate(all), err |-> NoErr]

(***************************************************************************)
(* Initial state: a Broker built by NewBroker, no request running.         *)
(***************************************************************************)
RequestInit ==
  /\ pc = "idle"
  /\ quErr = NoErr
  /\ ctxDone = FALSE
  /\ structuredQuery = NoQuery
  /\ targetShardIDs = <<>>
  /\ gstate = [s \in Handles |-> "none"]
  /\ wg = 0
  /\ calls = [s \in Handles |-> <<>>]
  /\ allResults = <<>>
  /\ errChan = <<>>
  /\ errCap = 0
  /\ ret = NoReturn
  /\ returned = [s \in Handles |-> NoOutcome]
  /\ arrival = <<>>

Init ==
  /\ searchers \in SearcherLists
  /\ searchFunc = [s \in Handles |-> SearchOutcomes(s)]
  /\ searchersByShard = NewBroker(searchers)
  /\ RequestInit
  /\ NoWritePath
  /\ NoServices
  /\ NoPlanning

\* a Broker built from as many Searchers as there are shard ids
InitRouting ==
  /\ searchers \in [1..Cardinality(ShardIDs) -> ShardIDs]
  /\ searchFunc = [s \in Handles |-> {Success(<<>>), Failure(SearcherErr)}]
  /\ searchersByShard = NewBroker(searchers)
  /\ RequestInit
  /\ NoWritePath
  /\ NoServices
  /\ NoPlanning

(***************************************************************************)
(* Broker.Search up to the end of the dispatch loop.                       *)
(***************************************************************************)
ReturnFromSearch(r) ==
  /\ pc' = "done"
  /\ ret' = r
  /\ UNCHANGED <<targetShardIDs, gstate, wg, calls, allResults, errChan, errCap,
                 returned, arrival>>

Panic ==
  /\ pc' = "panicked"
  /\ UNCHANGED <<ret, targetShardIDs, gstate, wg, calls, allResults, errChan,
                 errCap, returned, arrival>>

Dispatch(targets) ==
  LET started == SearchersOf(searchersByShard, targets, 1)
  IN  /\ pc' = "fanout"
      /\ targetShardIDs' = targets
      /\ errCap' = TotalTargetSearchers(searchersByShard, targets, 1)
      /\ gstate' = [s \in Handles |->
                      IF s \in Range(started) THEN "spawned" ELSE "none"]
      /\ wg' = Len(started)
      /\ UNCHANGED <<ret, calls, allResults, errChan, returned, arrival>>

\* the target shards of a query with keywords: the shard at hash % len
KeywordTargets(kw, availableShardIDs) ==
  <<availableShardIDs[ShardIndex(kw, Len(availableShardIDs)) + 1]>>

\* a broadcast that stops after the first shard
BroadcastTargetsFirstOnly(availableShardIDs) ==
  IF Len(availableShardIDs) = 0 THEN <<>> ELSE <<availableShardIDs[1]>>

\* the target shards of a query without keywords: every key of the map
BroadcastTargets(availableShardIDs) == availableShardIDs

\* a Search that wraps the error of Process
QUFailureReturnWrapped(err) == Failure("query understanding: wrapped")

\* what Search returns when Process fails
QUFailureReturn(err) == Failure(err)

\* a Search that answers an empty list when there is no shard
NoShardsReturnEmpty == Success(<<>>)

\* what Search returns when the query has keywords and the map has no shard
NoShardsReturn == Failure(NoShardsErr)

Search ==
  /\ pc = "idle"
  /\ \E qu \in QUOutcomes, order \in MapOrders(searchersByShard) :
       /\ structuredQuery' = qu.sq
       /\ quErr' = qu.err
       /\ IF qu.err # NoErr
          THEN ReturnFromSearch(QUFailureReturn(qu.err))
          ELSE IF Len(qu.sq.Keywords) > 0
          THEN IF Len(order) > 0
               THEN IF ShardIndex(qu.sq.Keywords[1], Len(order)) < 0
                    THEN Panic
                    ELSE Dispatch(KeywordTargets(qu.sq.Keywords[1], order))
               ELSE ReturnFromSearch(NoShardsReturn)
          ELSE Dispatch(BroadcastTargets(order))
  /\ UNCHANGED <<brokerVars, writePathVars, planningVars, serviceVars, ctxDone>>

(***************************************************************************)
(* The goroutine of Searcher s.                                            *)
(***************************************************************************)
\* s.Search(ctx, structuredQuery) is called
SearcherCall(s) ==
  /\ pc = "fanout"
  /\ gstate[s] = "spawned"
  /\ gstate' = [gstate EXCEPT ![s] = "inflight"]
  /\ calls' = [calls EXCEPT ![s] = Append(@, structuredQuery)]
  /\ UNCHANGED <<brokerVars, writePathVars, planningVars, serviceVars, quErr, pc, ctxDone, structuredQuery, targetShardIDs, wg,
                 allResults, errChan, errCap, ret, returned, arrival>>

\* a call that has seen the cancellation may also return the context's error
OutcomesNow(s) ==
  searchFunc[s] \cup (IF ctxDone THEN {Failure(Canceled)} ELSE {})

\* s.Search returns; the goroutine reports the error or appends the results
SearcherReturn(s) ==
  /\ pc = "fanout"
  /\ gstate[s] = "inflight"
  /\ \E out \in OutcomesNow(s) :
       /\ returned' = [returned EXCEPT ![s] = out]
       /\ IF out.err # NoErr
          THEN /\ Len(errChan) < errCap
               /\ errChan' = Append(errChan, out.err)
               /\ UNCHANGED <<allResults, arrival>>
          ELSE /\ allResults' = allResults \o out.results
               /\ arrival' = Append(arrival, s)
               /\ UNCHANGED errChan
  /\ gstate' = [gstate EXCEPT ![s] = "done"]
  /\ wg' = wg - 1
  /\ UNCHANGED <<brokerVars, writePathVars, planningVars, serviceVars, quErr, pc, ctxDone, structuredQuery, targetShardIDs, calls,
                 errCap, ret>>

\* the caller cancels the request context during the fan-out
Cancel ==
  /\ pc = "fanout"
  /\ ~ctxDone
  /\ ctxDone' = TRUE
  /\ UNCHANGED <<brokerVars, writePathVars, planningVars, serviceVars, quErr, pc, structuredQuery, targetShardIDs, gstate, wg,
                 calls, allResults, errChan, errCap, ret, returned, arrival>>

(***************************************************************************)
(* Broker.Search from wg.Wait() to the return.                             *)
(***************************************************************************)
Merge ==
  /\ pc = "fanout"
  /\ wg = 0
  /\ pc' = "done"
  /\ errChan' = IF Len(errChan) > 0 THEN Tail(errChan) ELSE errChan
  /\ ret' = MergeReturn(allResults, errChan)
  /\ UNCHANGED <<brokerVars, writePathVars, planningVars, serviceVars, quErr, ctxDone, structuredQuery, targetShardIDs, gstate, wg,
                 calls, allResults, errCap, returned, arrival>>

\* the request is over; the Broker serves the next one
NextRequest ==
  /\ pc \in {"done", "panicked"}
  /\ pc' = "idle"
  /\ quErr' = NoErr
  /\ ctxDone' = FALSE
  /\ structuredQuery' = NoQuery
  /\ targetShardIDs' = <<>>
  /\ gstate' = [s \in Handles |-> "none"]
  /\ wg' = 0
  /\ calls' = [s \in Handles |-> <<>>]
  /\ allResults' = <<>>
  /\ errChan' = <<>>
  /\ errCap' = 0
  /\ ret' = NoReturn
  /\ returned' = [s \in Handles |-> NoOutcome]
  /\ arrival' = <<>>
  /\ UNCHANGED <<brokerVars, writePathVars, planningVars, serviceVars>>

Next ==
  \/ Search
  \/ \E s \in Handles : SearcherCall(s)
  \/ \E s \in Handles : SearcherReturn(s)
  \/ Cancel
  \/ Merge
  \/ NextRequest

Spec == Init /\ [][Next]_vars

\* a Broker of zero to MaxSearchers Searchers, each of which may fail
InitFanOut ==
  /\ searchers \in SearcherLists
  /\ searchFunc = [s \in Handles |-> {Success(<<>>), Failure(SearcherErr)}]
  /\ searchersByShard = NewBroker(searchers)
  /\ RequestInit
  /\ NoWritePath
  /\ NoServices
  /\ NoPlanning

\* the goroutines started by Search are scheduled, every Searcher call that
\* is made returns, and wg.Wait() wakes up once the counter is zero
SpecSearchFair ==
  /\ InitFanOut
  /\ [][Next]_vars
  /\ WF_vars(\E s \in Handles : SearcherCall(s))
  /\ WF_vars(\E s \in Handles : SearcherReturn(s))
  /\ WF_vars(Merge)

SpecRouting == InitRouting /\ [][Next]_vars

(***************************************************************************)
(* The Broker service: the handler of /search.                             *)
(***************************************************************************)
StatusOK == "200 OK"
StatusBadRequest == "400 Bad Request"
StatusMethodNotAllowed == "405 Method Not Allowed"
StatusConflict == "409 Conflict"
StatusInternalServerError == "500 Internal Server Error"

Methods == {"GET", "POST"}
QueryParams == {"", "q"}

NoRequest == [state |-> "idle", method |-> "", q |-> "", status |-> "none",
              body |-> <<>>]

\* http.Error(w, ..., status) and return
Respond(method, q, status, body) ==
  [state |-> "responded", method |-> method, q |-> q, status |-> status,
   body |-> body]

\* a handler that answers 200 whatever Search returned
SearchStatusAlwaysOK(err) == StatusOK

\* the status written after b.Search returned err
SearchStatus(err) ==
  IF err # NoErr THEN StatusInternalServerError ELSE StatusOK

\* the handler up to the call of b.Search: the method and the q parameter
ServeSearch(method, q) ==
  /\ handler.state = "idle"
  /\ handler' = IF method # "GET"
                THEN Respond(method, q, StatusMethodNotAllowed, <<>>)
                ELSE IF q = ""
                THEN Respond(method, q, StatusBadRequest, <<>>)
                ELSE [NoRequest EXCEPT !.state = "searching",
                                       !.method = method, !.q = q]
  /\ UNCHANGED <<brokerVars, requestVars, writePathVars, planningVars,
                 refreshTask, searchResponse, requests>>

\* b.Search(ctx, broker.RawQuery(queryParam))
HandlerCallsSearch ==
  /\ handler.state = "searching"
  /\ Search

\* the handler after b.Search returned: the error answer, or the results encoded
WriteResponse ==
  /\ handler.state = "searching"
  /\ pc = "done"
  /\ handler' = Respond(handler.method, handler.q, SearchStatus(ret.err),
                        IF ret.err # NoErr THEN <<>> ELSE ret.results)
  /\ UNCHANGED <<brokerVars, requestVars, writePathVars, planningVars,
                 refreshTask, searchResponse, requests>>

\* a Broker of zero to MaxSearchers Searchers and one request to /search
InitHTTP ==
  /\ searchers \in SearcherLists
  /\ searchFunc = [s \in Handles |-> SearchOutcomes(s)]
  /\ searchersByShard = NewBroker(searchers)
  /\ RequestInit
  /\ IndexerInit({"local"}, <<>>, 0)
  /\ SearcherInit
  /\ NoPlanning
  /\ handler = NoRequest
  /\ refreshTask = <<>>
  /\ searchResponse = <<>>
  /\ requests = <<>>

NextHTTP ==
  \/ \E method \in Methods, q \in QueryParams : ServeSearch(method, q)
  \/ HandlerCallsSearch
  \/ \E s \in Handles : SearcherCall(s)
  \/ \E s \in Handles : SearcherReturn(s)
  \/ Cancel
  \/ Merge
  \/ WriteResponse

SpecHTTP == InitHTTP /\ [][NextHTTP]_vars

(***************************************************************************)
(* Broker.Search called by several request handlers at the same time.  The *)
(* Broker's fields are shared; structuredQuery, allResults, wg, errChan    *)
(* and targetShardIDs are locals of each call.                             *)
(***************************************************************************)
Requests == {1, 2}

\* what the call of Searcher s made for request r may return: a result that
\* names the call it answers, or an error
OutcomesFor(r, s) ==
  {Success(<<[ID |-> "a", Title |-> <<s, r>>]>>), Failure(SearcherErr)}

NoCall ==
  [pc |-> "idle", structuredQuery |-> NoQuery, targetShardIDs |-> <<>>,
   gstate |-> [s \in Handles |-> "none"], wg |-> 0, allResults |-> <<>>,
   errChan |-> <<>>, errCap |-> 0, ret |-> NoReturn,
   returned |-> [s \in Handles |-> NoOutcome]]

\* the locals of a call that has returned r before the fan-out
ReturnedCall(sq, r) == [NoCall EXCEPT !.pc = "done", !.structuredQuery = sq, !.ret = r]

\* the locals of a call at the end of its dispatch loop
DispatchedCall(sq, targets) ==
  LET started == SearchersOf(searchersByShard, targets, 1)
  IN  [NoCall EXCEPT
         !.pc = "fanout",
         !.structuredQuery = sq,
         !.targetShardIDs = targets,
         !.errCap = TotalTargetSearchers(searchersByShard, targets, 1),
         !.gstate = [s \in Handles |->
                       IF s \in Range(started) THEN "spawned" ELSE "none"],
         !.wg = Len(started)]

\* an append to a slice that every call shares
AppendToShared(reqs, r, results) ==
  [x \in DOMAIN reqs |-> [reqs[x] EXCEPT !.allResults = @ \o results]]

\* allResults = append(allResults, results...) on the slice of call r
AppendResults(reqs, r, results) ==
  [reqs EXCEPT ![r].allResults = @ \o results]

\* Broker.Search of request r up to the end of the dispatch loop
ConcurrentSearch(r) ==
  /\ requests[r].pc = "idle"
  /\ \E qu \in QUOutcomes, order \in MapOrders(searchersByShard) :
       requests' = [requests EXCEPT ![r] =
         IF qu.err # NoErr
         THEN ReturnedCall(qu.sq, QUFailureReturn(qu.err))
         ELSE IF Len(qu.sq.Keywords) > 0
         THEN IF Len(order) > 0
              THEN IF ShardIndex(qu.sq.Keywords[1], Len(order)) < 0
                   THEN [NoCall EXCEPT !.pc = "panicked"]
                   ELSE DispatchedCall(qu.sq, KeywordTargets(qu.sq.Keywords[1], order))
              ELSE ReturnedCall(qu.sq, NoShardsReturn)
         ELSE DispatchedCall(qu.sq, BroadcastTargets(order))]
  /\ UNCHANGED <<brokerVars, requestVars, writePathVars, planningVars, handler,
                 refreshTask, searchResponse>>

\* the goroutine of request r for Searcher s: the call, then the error sent
\* or the results appended
SearcherGoroutine(r, s) ==
  /\ requests[r].pc = "fanout"
  /\ requests[r].gstate[s] = "spawned"
  /\ \E out \in OutcomesFor(r, s) :
       LET finished == [requests EXCEPT ![r].gstate[s] = "done",
                                        ![r].wg = @ - 1,
                                        ![r].returned[s] = out]
       IN  IF out.err # NoErr
           THEN /\ Len(requests[r].errChan) < requests[r].errCap
                /\ requests' = [finished EXCEPT ![r].errChan = Append(@, out.err)]
           ELSE requests' = AppendResults(finished, r, out.results)
  /\ UNCHANGED <<brokerVars, requestVars, writePathVars, planningVars, handler,
                 refreshTask, searchResponse>>

\* Broker.Search of request r from wg.Wait() to the return
ConcurrentMerge(r) ==
  /\ requests[r].pc = "fanout"
  /\ requests[r].wg = 0
  /\ requests' = [requests EXCEPT
                    ![r].pc = "done",
                    ![r].errChan = IF Len(@) > 0 THEN Tail(@) ELSE @,
                    ![r].ret = MergeReturn(requests[r].allResults,
                                           requests[r].errChan)]
  /\ UNCHANGED <<brokerVars, requestVars, writePathVars, planningVars, handler,
                 refreshTask, searchResponse>>

\* a Broker of two Searchers on one or two shards, and two requests
InitConcurrent ==
  /\ searchers \in [1..2 -> {0, 1}]
  /\ searchFunc = [s \in Handles |-> UNION {OutcomesFor(r, s) : r \in Requests}]
  /\ searchersByShard = NewBroker(searchers)
  /\ RequestInit
  /\ IndexerInit({"local"}, <<>>, 0)
  /\ SearcherInit
  /\ NoPlanning
  /\ handler = <<>>
  /\ refreshTask = <<>>
  /\ searchResponse = <<>>
  /\ requests = [r \in Requests |-> NoCall]

NextConcurrent ==
  \/ \E r \in Requests : ConcurrentSearch(r)
  \/ \E r \in Requests, s \in Handles : SearcherGoroutine(r, s)
  \/ \E r \in Requests : ConcurrentMerge(r)

SpecConcurrent == InitConcurrent /\ [][NextConcurrent]_vars

\* the de-duplication scenario of TestBroker_Search_Deduplication: two Searchers
\* of one shard, the first returns a, b, c and the second returns b, d
DedupList1 == ResultList(1, <<"a", "b", "c">>)
DedupList2 == ResultList(2, <<"b", "d">>)

InitDedup ==
  /\ searchers = <<0, 0>>
  /\ searchFunc = (1 :> {Success(DedupList1)}) @@ (2 :> {Success(DedupList2)})
  /\ searchersByShard = NewBroker(searchers)
  /\ RequestInit
  /\ NoWritePath
  /\ NoServices
  /\ NoPlanning

SpecDedup == InitDedup /\ [][Next]_vars

(***************************************************************************)
(* Indexer: the calls of its methods.                                      *)
(***************************************************************************)
MaxOps == 3
MaxTime == 3

maxS3UploadRetries == 3
initialS3Backoff == 1
maxS3Backoff == 8

IndexErr == "error indexing document"
DeleteErr == "failed to delete document"
BatchErr == "error executing batch index operation"
IndexLocked == "index is locked, another upload may be in progress"
LockFileErr == "failed to create lock file"
UploadErr == "failed to upload index segment"

\* the files of an index directory, in the order filepath.WalkDir visits them
SegmentFiles == <<"index_meta.json", "store/root.bolt">>

IndexOp(i, id, data) ==
  [name |-> "IndexDocument", ix |-> i, id |-> id, data |-> data, docs |-> <<>>]
DeleteOp(i, id) ==
  [name |-> "DeleteDocument", ix |-> i, id |-> id, data |-> "", docs |-> <<>>]
BulkOp(i, docs) ==
  [name |-> "BulkIndexDocuments", ix |-> i, id |-> "", data |-> "", docs |-> docs]
CommitOp(i) ==
  [name |-> "CommitAndUpload", ix |-> i, id |-> "", data |-> "", docs |-> <<>>]
CloseOp(i) ==
  [name |-> "Close", ix |-> i, id |-> "", data |-> "", docs |-> <<>>]

\* the batches BulkIndexDocuments is called with
Batches == {[k \in DocKeys |-> v] : v \in Versions}

WriteOps(i) ==
  {IndexOp(i, k, v) : k \in DocKeys, v \in Versions}
    \cup {DeleteOp(i, k) : k \in DocKeys}
    \cup {BulkOp(i, b) : b \in Batches}
    \cup {CloseOp(i)}

\* a caller enters a method of an Indexer and reaches i.mu.Lock()
Call(c, o) ==
  /\ ipc[c] = "idle"
  /\ opCount < MaxOps
  /\ ipc' = [ipc EXCEPT ![c] = "waiting"]
  /\ op' = [op EXCEPT ![c] = o]
  /\ frame' = [x \in Callers |->
                IF x = c
                THEN [NoFrame EXCEPT
                        !.overlapped = \E y \in Callers \ {c} : ipc[y] # "idle"]
                ELSE IF ipc[x] # "idle"
                THEN [frame[x] EXCEPT !.overlapped = TRUE]
                ELSE frame[x]]
  /\ result' = [result EXCEPT ![c] = "none"]
  /\ opCount' = opCount + 1
  /\ UNCHANGED <<storage, indexPath, segmentPathInfo, index, closed, mu, lockFile, segmentStore,
                 now, uploaded>>
  /\ UNCHANGED <<brokerVars, requestVars, searcherVars, planningVars, serviceVars>>

\* a mutex that never blocks
MutexFreeAlways(i) == TRUE

\* sync.Mutex: Lock returns when no caller holds the mutex
MutexFree(i) == mu[i] = NoCaller

\* i.mu.Lock()
Lock(c) ==
  /\ ipc[c] = "waiting"
  /\ MutexFree(op[c].ix)
  /\ mu' = [mu EXCEPT ![op[c].ix] = c]
  /\ ipc' = [ipc EXCEPT ![c] = "locked"]
  /\ frame' = [frame EXCEPT ![c].pending = DOMAIN op[c].docs]
  /\ UNCHANGED <<storage, indexPath, segmentPathInfo, index, closed, lockFile, op, segmentStore,
                 result, now, opCount, uploaded>>
  /\ UNCHANGED <<brokerVars, requestVars, searcherVars, planningVars, serviceVars>>

\* return err, with the deferred i.mu.Unlock()
ReturnUnlock(c, err) ==
  /\ ipc' = [ipc EXCEPT ![c] = "idle"]
  /\ result' = [result EXCEPT ![c] = err]
  /\ mu' = [mu EXCEPT ![op[c].ix] = NoCaller]

\* an Index that forgets the document when it already holds the same data
BleveIndexToggle(ix, id, data) ==
  [ix EXCEPT ![id] = IF @ = data THEN Absent ELSE data]

\* i.index.Index(id, data), and batch.Index(id, data) once the batch is
\* executed: the document is added, or replaces the one with the same id
BleveIndex(ix, id, data) == [ix EXCEPT ![id] = data]

\* a Delete that drops every document of the index
BleveDeleteAll(ix, id) == [k \in DOMAIN ix |-> Absent]

\* i.index.Delete(id): the document is removed if it is there
BleveDelete(ix, id) == [ix EXCEPT ![id] = Absent]

\* Indexer.IndexDocument after i.mu.Lock(): bleve's Index adds or replaces the
\* document, and fails on a closed index
IndexDocument(c) ==
  /\ ipc[c] = "locked"
  /\ op[c].name = "IndexDocument"
  /\ LET i == op[c].ix
     IN  IF closed[i]
         THEN /\ ReturnUnlock(c, IndexErr)
              /\ UNCHANGED index
         ELSE /\ ReturnUnlock(c, NoErr)
              /\ index' = [index EXCEPT ![i] = BleveIndex(@, op[c].id, op[c].data)]
  /\ UNCHANGED <<storage, indexPath, segmentPathInfo, closed, lockFile, op, frame, segmentStore,
                 now, opCount, uploaded>>
  /\ UNCHANGED <<brokerVars, requestVars, searcherVars, planningVars, serviceVars>>

\* Indexer.DeleteDocument after i.mu.Lock(): bleve's Delete removes the
\* document if it is there, and fails on a closed index
DeleteDocument(c) ==
  /\ ipc[c] = "locked"
  /\ op[c].name = "DeleteDocument"
  /\ LET i == op[c].ix
     IN  IF closed[i]
         THEN /\ ReturnUnlock(c, DeleteErr)
              /\ UNCHANGED index
         ELSE /\ ReturnUnlock(c, NoErr)
              /\ index' = [index EXCEPT ![i] = BleveDelete(@, op[c].id)]
  /\ UNCHANGED <<storage, indexPath, segmentPathInfo, closed, lockFile, op, frame, segmentStore,
                 now, opCount, uploaded>>
  /\ UNCHANGED <<brokerVars, requestVars, searcherVars, planningVars, serviceVars>>

\* Indexer.BulkIndexDocuments after i.mu.Lock(): one step writes one document
\* of the batch, in the order the range over the map yields them; the step
\* after the last document returns
BulkIndexDocuments(c) ==
  /\ ipc[c] = "locked"
  /\ op[c].name = "BulkIndexDocuments"
  /\ LET i == op[c].ix
     IN  IF closed[i]
         THEN /\ ReturnUnlock(c, BatchErr)
              /\ UNCHANGED <<index, frame>>
         ELSE IF frame[c].pending = {}
         THEN /\ ReturnUnlock(c, NoErr)
              /\ UNCHANGED <<index, frame>>
         ELSE \E id \in frame[c].pending :
                /\ index' = [index EXCEPT ![i] = BleveIndex(@, id, op[c].docs[id])]
                /\ frame' = [frame EXCEPT ![c].pending = @ \ {id}]
                /\ UNCHANGED <<ipc, result, mu>>
  /\ UNCHANGED <<storage, indexPath, segmentPathInfo, closed, lockFile, op, segmentStore,
                 now, opCount, uploaded>>
  /\ UNCHANGED <<brokerVars, requestVars, searcherVars, planningVars, serviceVars>>

\* Indexer.Close after i.mu.Lock()
Close(c) ==
  /\ ipc[c] = "locked"
  /\ op[c].name = "Close"
  /\ ReturnUnlock(c, NoErr)
  /\ closed' = [closed EXCEPT ![op[c].ix] = TRUE]
  /\ UNCHANGED <<storage, indexPath, segmentPathInfo, index, lockFile, op, frame, segmentStore,
                 now, opCount, uploaded>>
  /\ UNCHANGED <<brokerVars, requestVars, searcherVars, planningVars, serviceVars>>

(***************************************************************************)
(* Indexer.CommitAndUpload and the two UploadSegment implementations.      *)
(***************************************************************************)
FileUploadErr == "error during segment upload"

\* S3Storage.UploadSegment: s3Prefix, from the base name and the UTC time in
\* whole seconds
S3Prefix(base, t) == <<base, t>>

\* LocalFileStorage.UploadSegment: destSegmentDir, from the base name
DestSegmentDir(base) == <<base>>

SegmentPrefix(i) ==
  IF storage = "s3" THEN S3Prefix(indexPath[i], now)
  ELSE DestSegmentDir(indexPath[i])

\* a wait that does not double
BackoffFixed(attempt) == initialS3Backoff

\* the wait after the failed attempt number attempt (counted from 0)
Backoff(attempt) ==
  LET backoff == (2 ^ attempt) * initialS3Backoff
  IN  IF backoff > maxS3Backoff THEN maxS3Backoff ELSE backoff

\* os.OpenFile without O_EXCL never fails with an IsExist error
LockFileNeverExists == FALSE

\* os.OpenFile with O_CREATE|O_EXCL fails with an IsExist error
LockFileExists == lockFile # NoCaller

\* a write that replaces the whole store by the one object
PutObjectAlone(key, content) == [k \in {key} |-> content]

\* writing an object: a new key is added, an existing key gets the content
PutObject(key, content) ==
  [k \in DOMAIN segmentStore \cup {key} |->
     IF k = key THEN content ELSE segmentStore[k]]

PathMissing == "segment path does not exist"
NotDirectory == "segment path is not a directory"

\* an UploadSegment that does not look at what os.Stat found
StatErrorNone(info) == NoErr

\* UploadSegment, both implementations: the error of the checks on
\* os.Stat(segmentPath), or nil
StatError(info) ==
  IF info = NotExist THEN PathMissing
  ELSE IF info # IsDir THEN NotDirectory
  ELSE NoErr

\* CommitAndUpload after i.mu.Lock(): the lock file is created, or the call
\* returns; once created, UploadSegment starts: it returns the error of its
\* checks of the segment path, or fixes its prefix
AcquireLockFile(c) ==
  /\ ipc[c] = "locked"
  /\ op[c].name = "CommitAndUpload"
  /\ IF LockFileExists
     THEN /\ ReturnUnlock(c, IndexLocked)
          /\ UNCHANGED <<lockFile, frame>>
     ELSE \/ /\ ReturnUnlock(c, LockFileErr)
             /\ UNCHANGED <<lockFile, frame>>
          \/ /\ lockFile' = c
             /\ LET err == StatError(segmentPathInfo[op[c].ix])
                IN  IF err = NoErr
                    THEN /\ ipc' = [ipc EXCEPT ![c] = "uploading"]
                         /\ frame' = [frame EXCEPT
                                        ![c].prefix = SegmentPrefix(op[c].ix),
                                        ![c].file = 1,
                                        ![c].start = now]
                    ELSE /\ ipc' = [ipc EXCEPT ![c] = "releasing"]
                         /\ frame' = [frame EXCEPT ![c].err = err,
                                                   ![c].start = now]
             /\ UNCHANGED <<result, mu>>
  /\ UNCHANGED <<storage, indexPath, segmentPathInfo, index, closed, op, segmentStore, now,
                 opCount, uploaded>>
  /\ UNCHANGED <<brokerVars, requestVars, searcherVars, planningVars, serviceVars>>

\* UploadSegment inside the walk: one attempt to upload the current file.
\* S3Storage retries a failed attempt after a sleep, LocalFileStorage does not.
UploadFile(c) ==
  /\ ipc[c] = "uploading"
  /\ LET f == frame[c].file
         a == frame[c].attempt
         key == <<frame[c].prefix, SegmentFiles[f]>>
     IN  \/ /\ segmentStore' = PutObject(key, index[op[c].ix])
            /\ IF f = Len(SegmentFiles)
               THEN /\ ipc' = [ipc EXCEPT ![c] = "releasing"]
                    /\ UNCHANGED frame
               ELSE /\ frame' = [frame EXCEPT ![c].file = f + 1,
                                              ![c].attempt = 0,
                                              ![c].slept = <<>>]
                    /\ UNCHANGED ipc
            /\ UNCHANGED now
         \/ /\ storage = "s3"
            /\ a < maxS3UploadRetries - 1
            /\ now + Backoff(a) <= MaxTime
            /\ frame' = [frame EXCEPT ![c].attempt = a + 1,
                                      ![c].slept = Append(@, Backoff(a))]
            /\ now' = now + Backoff(a)
            /\ UNCHANGED <<ipc, segmentStore>>
         \/ /\ storage = "local" \/ a >= maxS3UploadRetries - 1
            /\ frame' = [frame EXCEPT ![c].attempt = a + 1,
                                      ![c].err = FileUploadErr]
            /\ ipc' = [ipc EXCEPT ![c] = "releasing"]
            /\ UNCHANGED <<now, segmentStore>>
  /\ UNCHANGED <<storage, indexPath, segmentPathInfo, index, closed, mu, lockFile, op, result,
                 opCount, uploaded>>
  /\ UNCHANGED <<brokerVars, requestVars, searcherVars, planningVars, serviceVars>>

\* a CommitAndUpload that drops the error of UploadSegment
CommitReturnNil(uploadErr) == NoErr

\* what CommitAndUpload returns for the error of UploadSegment
CommitReturn(uploadErr) == IF uploadErr = NoErr THEN NoErr ELSE UploadErr

\* the lock file when the deferred function does not remove it
KeptLockFile == lockFile

\* the lock file after the deferred os.Remove(lockFilePath)
RemovedLockFile == NoCaller

\* CommitAndUpload returns: the deferred function removes the lock file
ReleaseLockFile(c) ==
  /\ ipc[c] = "releasing"
  /\ lockFile' = RemovedLockFile
  /\ ReturnUnlock(c, CommitReturn(frame[c].err))
  /\ uploaded' = IF frame[c].err = NoErr THEN Append(uploaded, frame[c].prefix)
                 ELSE uploaded
  /\ UNCHANGED <<storage, indexPath, segmentPathInfo, index, closed, op, frame, segmentStore,
                 now, opCount>>
  /\ UNCHANGED <<brokerVars, requestVars, searcherVars, planningVars, serviceVars>>

\* a second passes
Tick ==
  /\ now < MaxTime
  /\ now' = now + 1
  /\ UNCHANGED <<storage, indexPath, segmentPathInfo, index, closed, mu, lockFile, ipc, op, frame,
                 segmentStore, result, opCount, uploaded>>
  /\ UNCHANGED <<brokerVars, requestVars, searcherVars, planningVars, serviceVars>>

(***************************************************************************)
(* The HTTP handler of POST /commit.                                       *)
(***************************************************************************)
\* WebService.HandleCommitRequest for a POST: the status written for the
\* error that CommitAndUpload returned; every error gets the same status
HandleCommitRequest(err) ==
  IF err # NoErr THEN StatusInternalServerError ELSE StatusOK

\* the process of caller c stops after os.OpenFile created the lock file and
\* before the deferred os.Remove runs: the lock file stays behind
Stop(c) ==
  /\ ipc[c] \in {"uploading", "releasing"}
  /\ lockFile = c
  /\ ipc' = [ipc EXCEPT ![c] = "stopped"]
  /\ UNCHANGED <<storage, indexPath, segmentPathInfo, index, closed, mu, lockFile, op, frame,
                 segmentStore, result, now, opCount, uploaded>>
  /\ UNCHANGED <<brokerVars, requestVars, searcherVars, planningVars, serviceVars>>

\* somebody outside the Indexers removes the lock file a stopped process left
RemoveStaleLockFile ==
  /\ lockFile # NoCaller
  /\ ipc[lockFile] = "stopped"
  /\ lockFile' = NoCaller
  /\ UNCHANGED <<storage, indexPath, segmentPathInfo, index, closed, mu, ipc, op, frame,
                 segmentStore, result, now, opCount, uploaded>>
  /\ UNCHANGED <<brokerVars, requestVars, searcherVars, planningVars, serviceVars>>

(***************************************************************************)
(* Specifications of the write path.                                       *)
(***************************************************************************)
\* two Indexers with index paths idx1 and idx2 in one directory, two callers
\* of CommitAndUpload
InitCommit ==
  /\ searchers = <<>>
  /\ searchFunc = <<>>
  /\ searchersByShard = NewBroker(searchers)
  /\ RequestInit
  /\ IndexerInit({"s3", "local"}, <<"idx1", "idx2">>, 2)
  /\ SearcherInit
  /\ NoServices
  /\ NoPlanning

NextCommit ==
  \/ \E c \in Callers, i \in Indexers : Call(c, CommitOp(i))
  \/ \E c \in Callers : Lock(c)
  \/ \E c \in Callers : AcquireLockFile(c)
  \/ \E c \in Callers : UploadFile(c)
  \/ \E c \in Callers : ReleaseLockFile(c)
  \/ Tick

SpecCommit == InitCommit /\ [][NextCommit]_vars

\* CommitAndUpload on two Indexers of one directory, each in its own process;
\* a process may stop while its call holds the lock file
NextStaleLock ==
  \/ \E c \in Callers, i \in Indexers : Call(c, CommitOp(i))
  \/ \E c \in Callers : Lock(c)
  \/ \E c \in Callers : AcquireLockFile(c)
  \/ \E c \in Callers : UploadFile(c)
  \/ \E c \in Callers : ReleaseLockFile(c)
  \/ \E c \in Callers : Stop(c)
  \/ RemoveStaleLockFile

SpecStaleLock == InitCommit /\ [][NextStaleLock]_vars

\* two Indexers and two callers of CommitAndUpload on LocalFileStorage or
\* S3Storage; an index path is a directory, or is missing, or is a regular file
InitUploadSegment ==
  /\ searchers = <<>>
  /\ searchFunc = <<>>
  /\ searchersByShard = NewBroker(searchers)
  /\ RequestInit
  /\ IndexerInitAt({"s3", "local"}, <<"idx1", "idx2">>, 2, PathInfos)
  /\ SearcherInit
  /\ NoServices
  /\ NoPlanning

SpecUploadSegment == InitUploadSegment /\ [][NextCommit]_vars

\* one Indexer, two callers of its methods; time passes only while a caller
\* sleeps between upload attempts
InitIndexer ==
  /\ searchers = <<>>
  /\ searchFunc = <<>>
  /\ searchersByShard = NewBroker(searchers)
  /\ RequestInit
  /\ IndexerInit({"s3", "local"}, <<"idx1">>, 2)
  /\ SearcherInit
  /\ NoServices
  /\ NoPlanning

NextIndexer ==
  \/ \E c \in Callers, i \in Indexers :
       \E o \in WriteOps(i) \cup {CommitOp(i)} : Call(c, o)
  \/ \E c \in Callers : Lock(c)
  \/ \E c \in Callers : IndexDocument(c)
  \/ \E c \in Callers : DeleteDocument(c)
  \/ \E c \in Callers : BulkIndexDocuments(c)
  \/ \E c \in Callers : Close(c)
  \/ \E c \in Callers : AcquireLockFile(c)
  \/ \E c \in Callers : UploadFile(c)
  \/ \E c \in Callers : ReleaseLockFile(c)

SpecIndexer == InitIndexer /\ [][NextIndexer]_vars

(***************************************************************************)
(* Searcher: the refresh task.                                             *)
(***************************************************************************)
\* Searcher.UpdateIndex when the ticker fires: downloadSegments creates the
\* file segment_<unix time>.txt in ./segments and leaves Searcher.index
\* alone.  A failing downloadSegments is logged and changes nothing.
UpdateIndex ==
  /\ segmentsDir' = segmentsDir \cup {now}
  /\ refreshed' = uploaded
  /\ UNCHANGED searcherIndex
  /\ UNCHANGED <<brokerVars, requestVars, indexerVars, planningVars, serviceVars>>

\* what a search of the Searcher finds for a document id
SearcherFinds(id) == searcherIndex[id]

(***************************************************************************)
(* The Searcher service: the refresh task Searcher.UpdateIndex and the     *)
(* handler Searcher.SearchHandler.                                         *)
(***************************************************************************)
MaxTicks == 3

DownloadOutcomes == {"downloaded", "failed"}

\* UpdateIndex has been started and waits in its select
TaskStarted == [state |-> "select", ctxDone |-> FALSE, ticks |-> <<>>]

\* an UpdateIndex that returns when downloadSegments fails
ReturnOnError(outcome) ==
  IF outcome = "failed" THEN "returned" ELSE "select"

\* UpdateIndex after downloadSegments: its error is logged and the loop goes
\* back to the select
AfterDownload(outcome) == "select"

\* case <-ticker.C: downloadSegments creates the segment file of this tick
\* (the ticks are five minutes apart, the file name holds the second), or fails
UpdateIndexTick ==
  /\ refreshTask.state = "select"
  /\ Len(refreshTask.ticks) < MaxTicks
  /\ \E outcome \in DownloadOutcomes :
       /\ refreshTask' = [refreshTask EXCEPT
                            !.ticks = Append(@, outcome),
                            !.state = AfterDownload(outcome)]
       /\ IF outcome = "downloaded"
          THEN /\ segmentsDir' = segmentsDir \cup {Len(refreshTask.ticks) + 1}
               /\ refreshed' = uploaded
          ELSE UNCHANGED <<segmentsDir, refreshed>>
  /\ UNCHANGED searcherIndex
  /\ UNCHANGED <<brokerVars, requestVars, indexerVars, planningVars, handler,
                 searchResponse, requests>>

\* the context given to UpdateIndex is cancelled
CancelContext ==
  /\ ~refreshTask.ctxDone
  /\ refreshTask' = [refreshTask EXCEPT !.ctxDone = TRUE]
  /\ UNCHANGED <<brokerVars, requestVars, writePathVars, planningVars, handler,
                 searchResponse, requests>>

\* case <-ctx.Done(): UpdateIndex returns
UpdateIndexDone ==
  /\ refreshTask.state = "select"
  /\ refreshTask.ctxDone
  /\ refreshTask' = [refreshTask EXCEPT !.state = "returned"]
  /\ UNCHANGED <<brokerVars, requestVars, writePathVars, planningVars, handler,
                 searchResponse, requests>>

\* the document SearchHandler indexes when a search finds nothing
DummyID == "doc1"
DummyData == "This is a sample document for testing the searcher service."

SearchQueries == {"", "sample", "absent"}

\* the terms a query can match in a document with the given data
Terms(data) ==
  IF data = DummyData THEN {"sample", "document", "testing", "searcher", "service"}
  ELSE {data}

\* s.index.Search: the ids of the documents that match the query
Hits(ix, q) == {id \in DOMAIN ix : ix[id] # Absent /\ q \in Terms(ix[id])}

\* s.index.Index(id, data) on an index that may not hold id yet
IndexPut(ix, id, data) ==
  [k \in DOMAIN ix \cup {id} |-> IF k = id THEN data ELSE ix[k]]

NoResponse == [status |-> "none", query |-> "", results |-> {}, total_hits |-> 0]

SearchResponse(status, q, hits) ==
  [status |-> status, query |-> q, results |-> hits,
   total_hits |-> Cardinality(hits)]

\* Searcher.SearchHandler for the query parameter q: 400 without q, 500 when
\* the search fails; when the search finds nothing the dummy document is
\* indexed and, unless that fails, the search runs again
SearchHandler(q) ==
  /\ IF q = ""
     THEN /\ searchResponse' = SearchResponse(StatusBadRequest, q, {})
          /\ UNCHANGED searcherIndex
     ELSE \/ /\ searchResponse' = SearchResponse(StatusInternalServerError, q, {})
             /\ UNCHANGED searcherIndex
          \/ LET hits == Hits(searcherIndex, q)
             IN  IF hits = {}
                 THEN \/ /\ searcherIndex' = IndexPut(searcherIndex, DummyID, DummyData)
                         /\ searchResponse' =
                              SearchResponse(StatusOK, q, Hits(searcherIndex', q))
                      \/ /\ searcherIndex' = IndexPut(searcherIndex, DummyID, DummyData)
                         /\ searchResponse' =
                              SearchResponse(StatusInternalServerError, q, {})
                      \/ /\ UNCHANGED searcherIndex
                         /\ searchResponse' = SearchResponse(StatusOK, q, hits)
                 ELSE /\ UNCHANGED searcherIndex
                      /\ searchResponse' = SearchResponse(StatusOK, q, hits)
  /\ UNCHANGED <<segmentsDir, refreshed>>
  /\ UNCHANGED <<brokerVars, requestVars, indexerVars, planningVars, handler,
                 refreshTask, requests>>

\* a Searcher as NewSearcher makes it, its refresh task started
InitSearcher ==
  /\ searchers = <<>>
  /\ searchFunc = <<>>
  /\ searchersByShard = NewBroker(searchers)
  /\ RequestInit
  /\ IndexerInit({"local"}, <<>>, 0)
  /\ SearcherInit
  /\ NoPlanning
  /\ handler = <<>>
  /\ refreshTask = TaskStarted
  /\ searchResponse = NoResponse
  /\ requests = <<>>

NextSearcher ==
  \/ UpdateIndexTick
  \/ CancelContext
  \/ UpdateIndexDone
  \/ \E q \in SearchQueries : SearchHandler(q)

SpecSearcher == InitSearcher /\ [][NextSearcher]_vars

\* the select of UpdateIndex takes the ctx.Done() case once the context is
\* cancelled: the ticker is ready once in five minutes, ctx.Done() always
SpecSearcherFair == SpecSearcher /\ WF_vars(UpdateIndexDone)

\* one Indexer with one caller, and a Searcher
InitPipeline ==
  /\ searchers = <<>>
  /\ searchFunc = <<>>
  /\ searchersByShard = NewBroker(searchers)
  /\ RequestInit
  /\ IndexerInit({"s3", "local"}, <<"idx1">>, 1)
  /\ SearcherInit
  /\ NoServices
  /\ NoPlanning

NextPipeline ==
  \/ \E c \in Callers, i \in Indexers :
       \E o \in WriteOps(i) \cup {CommitOp(i)} : Call(c, o)
  \/ \E c \in Callers : Lock(c)
  \/ \E c \in Callers : IndexDocument(c)
  \/ \E c \in Callers : DeleteDocument(c)
  \/ \E c \in Callers : BulkIndexDocuments(c)
  \/ \E c \in Callers : Close(c)
  \/ \E c \in Callers : AcquireLockFile(c)
  \/ \E c \in Callers : UploadFile(c)
  \/ \E c \in Callers : ReleaseLockFile(c)
  \/ Tick
  \/ UpdateIndex

SpecPipeline == InitPipeline /\ [][NextPipeline]_vars

(***************************************************************************)
(* Query Understanding: strings.  A Go string is the sequence of its       *)
(* characters; the functions of package strings the stages call are        *)
(* computed on that sequence.                                              *)
(***************************************************************************)
UpperCase == <<"A", "B", "C", "D", "E", "F", "G", "H", "I", "J", "K", "L", "M",
               "N", "O", "P", "Q", "R", "S", "T", "U", "V", "W", "X", "Y", "Z">>
LowerCase == <<"a", "b", "c", "d", "e", "f", "g", "h", "i", "j", "k", "l", "m",
               "n", "o", "p", "q", "r", "s", "t", "u", "v", "w", "x", "y", "z">>

IsUpper(r) == \E i \in DOMAIN UpperCase : UpperCase[i] = r

\* unicode.IsSpace, on the white space of the queries
IsSpace(r) == r \in {" ", "\t"}

ToLowerRune(r) ==
  IF IsUpper(r)
  THEN LowerCase[CHOOSE i \in DOMAIN UpperCase : UpperCase[i] = r]
  ELSE r

\* a ToLower that leaves the first character as it is
ToLowerTail(s) == [i \in DOMAIN s |-> IF i = 1 THEN s[i] ELSE ToLowerRune(s[i])]

\* strings.ToLower
ToLower(s) == [i \in DOMAIN s |-> ToLowerRune(s[i])]

\* strings.Fields: the maximal runs of characters that are not white space
RECURSIVE FieldsFrom(_, _, _, _)
FieldsFrom(s, i, field, fields) ==
  IF i > Len(s)
  THEN IF field = <<>> THEN fields ELSE Append(fields, field)
  ELSE IF IsSpace(s[i])
  THEN FieldsFrom(s, i + 1, <<>>,
                  IF field = <<>> THEN fields ELSE Append(fields, field))
  ELSE FieldsFrom(s, i + 1, Append(field, s[i]), fields)

Fields(s) == FieldsFrom(s, 1, <<>>, <<>>)

\* strings.Join
RECURSIVE Join(_, _)
Join(elems, sep) ==
  IF elems = <<>> THEN <<>>
  ELSE IF Len(elems) = 1 THEN elems[1]
  ELSE elems[1] \o sep \o Join(Tail(elems), sep)

\* strings.HasPrefix(s[i-1:], substr)
HasPrefixAt(s, i, substr) ==
  /\ i + Len(substr) - 1 <= Len(s)
  /\ \A j \in DOMAIN substr : s[i + j - 1] = substr[j]

\* strings.Contains
Contains(s, substr) == \E i \in 1..(Len(s) + 1) : HasPrefixAt(s, i, substr)

\* strings.ReplaceAll for a non-empty old: the non-overlapping occurrences of
\* old, found from left to right, are replaced by new
RECURSIVE ReplaceAllFrom(_, _, _, _)
ReplaceAllFrom(s, i, old, new) ==
  IF i > Len(s) THEN <<>>
  ELSE IF HasPrefixAt(s, i, old)
  THEN new \o ReplaceAllFrom(s, i + Len(old), old, new)
  ELSE <<s[i]>> \o ReplaceAllFrom(s, i + 1, old, new)

ReplaceAll(s, old, new) == ReplaceAllFrom(s, 1, old, new)

(***************************************************************************)
(* Query Understanding: the stages.  Process returns the processed query   *)
(* and an error.                                                           *)
(***************************************************************************)
StopwordsTypeErr == "stopwords config must be a list of strings"

Processed(query, err) == [query |-> query, err |-> err]

\* LowerCaseStage.Process
LowerCaseProcess(query, config) == Processed(ToLower(query), NoErr)

\* TokenizeStage.Process
TokenizeProcess(query, config) ==
  IF query = <<>> THEN Processed(<<>>, NoErr)
  ELSE Processed(Join(Fields(query), <<" ">>), NoErr)

\* a configuration value of Go type []string
StringList(list) == [type |-> "[]string", value |-> list]

\* a configuration value of Go type string
StringValue(str) == [type |-> "string", value |-> str]

\* RemoveStopwordsStage.Process
RemoveStopwordsProcess(query, config) ==
  IF query = <<>> THEN Processed(<<>>, NoErr)
  ELSE IF "stopwords" \notin DOMAIN config THEN Processed(query, NoErr)
  ELSE IF config["stopwords"].type # "[]string"
  THEN Processed(<<>>, StopwordsTypeErr)
  ELSE LET stopwordsMap == Range(config["stopwords"].value)
           tokens == Fields(query)
           filteredTokens == SelectSeq(tokens, LAMBDA t : t \notin stopwordsMap)
       IN  Processed(Join(filteredTokens, <<" ">>), NoErr)

\* "pc" and "pc personal computer"
PcTerm == <<"p", "c">>
PcExpansion == <<"p", "c", " ", "p", "e", "r", "s", "o", "n", "a", "l", " ",
                 "c", "o", "m", "p", "u", "t", "e", "r">>

\* SynonymExpansionStage.Process
SynonymExpansionProcess(query, config) ==
  IF Contains(query, PcTerm)
  THEN Processed(ReplaceAll(query, PcTerm, PcExpansion), NoErr)
  ELSE Processed(query, NoErr)

\* QueryStage.Process of the stage implementations
Process(stage, query, config) ==
  CASE stage = "LowerCaseStage" -> LowerCaseProcess(query, config)
    [] stage = "TokenizeStage" -> TokenizeProcess(query, config)
    [] stage = "RemoveStopwordsStage" -> RemoveStopwordsProcess(query, config)
    [] stage = "SynonymExpansionStage" -> SynonymExpansionProcess(query, config)

\* the registry after init(): the four stages under their names
RegisteredAtInit ==
  [name \in {"lowercase", "tokenize", "remove_stopwords", "synonym_expansion"} |->
     CASE name = "lowercase" -> "LowerCaseStage"
       [] name = "tokenize" -> "TokenizeStage"
       [] name = "remove_stopwords" -> "RemoveStopwordsStage"
       [] name = "synonym_expansion" -> "SynonymExpansionStage"]

(***************************************************************************)
(* Query Understanding: StageRegistry.                                     *)
(***************************************************************************)
MaxRegistrants == 2

AlreadyRegisteredErr == "query stage is already registered"

StageNames == {"lowercase", "tokenize"}
StageImpls == {"LowerCaseStage", "TokenizeStage"}

Registrants == DOMAIN registrants

NoRegistrant ==
  [pc |-> "idle", name |-> "", stage |-> "", err |-> "none", concurrent |-> FALSE]

\* a registry in which no name is ever taken
AlreadyRegisteredNever(name) == FALSE

\* Register: _, exists := sr.stages[name]
AlreadyRegistered(name) == name \in DOMAIN stages

\* StageRegistry.Get
Get(name) ==
  IF name \in DOMAIN stages
  THEN [stage |-> stages[name], found |-> TRUE]
  ELSE [stage |-> "", found |-> FALSE]

\* NewStageRegistry, and callers that have not called Register yet
InitRegistry ==
  /\ searchers = <<>>
  /\ searchFunc = <<>>
  /\ searchersByShard = NewBroker(searchers)
  /\ RequestInit
  /\ NoWritePath
  /\ NoServices
  /\ stages = <<>>
  /\ registryMu = NoCaller
  /\ registrants = [p \in 1..MaxRegistrants |-> NoRegistrant]
  /\ cfg = <<>>
  /\ loaded = <<>>
  /\ rawQuery = <<>>
  /\ qpc = "idle"
  /\ pipeline = <<>>
  /\ stageConfigs = <<>>
  /\ currentQuery = <<>>
  /\ executed = <<>>
  /\ processed = <<>>

\* caller p calls Register(name, stage) and reaches sr.mu.Lock()
RegisterCall(p, name, stage) ==
  /\ registrants[p].pc = "idle"
  /\ registrants' =
       [q \in Registrants |->
          IF q = p
          THEN [pc |-> "waiting", name |-> name, stage |-> stage, err |-> "none",
                concurrent |->
                  \E r \in Registrants \ {p} :
                    registrants[r].pc \in {"waiting", "locked"}]
          ELSE IF registrants[q].pc \in {"waiting", "locked"}
          THEN [registrants[q] EXCEPT !.concurrent = TRUE]
          ELSE registrants[q]]
  /\ UNCHANGED <<stages, registryMu, cfg, loaded, rawQuery, qpc, pipeline,
                 stageConfigs, currentQuery, executed, processed>>
  /\ UNCHANGED <<brokerVars, requestVars, writePathVars, serviceVars>>

\* sr.mu.Lock()
RegisterLock(p) ==
  /\ registrants[p].pc = "waiting"
  /\ registryMu = NoCaller
  /\ registryMu' = p
  /\ registrants' = [registrants EXCEPT ![p].pc = "locked"]
  /\ UNCHANGED <<stages, cfg, loaded, rawQuery, qpc, pipeline, stageConfigs,
                 currentQuery, executed, processed>>
  /\ UNCHANGED <<brokerVars, requestVars, writePathVars, serviceVars>>

\* StageRegistry.Register after sr.mu.Lock(), with the deferred sr.mu.Unlock()
Register(p) ==
  /\ registrants[p].pc = "locked"
  /\ IF AlreadyRegistered(registrants[p].name)
     THEN /\ registrants' = [registrants EXCEPT ![p].pc = "done",
                                                ![p].err = AlreadyRegisteredErr]
          /\ UNCHANGED stages
     ELSE /\ stages' = [n \in DOMAIN stages \cup {registrants[p].name} |->
                          IF n = registrants[p].name THEN registrants[p].stage
                          ELSE stages[n]]
          /\ registrants' = [registrants EXCEPT ![p].pc = "done",
                                                ![p].err = NoErr]
  /\ registryMu' = NoCaller
  /\ UNCHANGED <<cfg, loaded, rawQuery, qpc, pipeline, stageConfigs,
                 currentQuery, executed, processed>>
  /\ UNCHANGED <<brokerVars, requestVars, writePathVars, serviceVars>>

NextRegistry ==
  \/ \E p \in Registrants, name \in StageNames, stage \in StageImpls :
       RegisterCall(p, name, stage)
  \/ \E p \in Registrants : RegisterLock(p)
  \/ \E p \in Registrants : Register(p)

SpecRegistry == InitRegistry /\ [][NextRegistry]_vars

(***************************************************************************)
(* Query Understanding: ProcessClientQuery and PipelineExecutor.           *)
(* An error is the chain of its messages, outermost first; the names an    *)
(* error message holds are kept beside it.                                 *)
(***************************************************************************)
MaxSteps == 3

PipelineNilErr == "query planning pipeline cannot be nil"
PipelineNotFoundErr == "query planning pipeline not found in the provided configuration"
StageNotFoundErr == "query stage not found in registry for pipeline"
StageFailedErr == "failed to execute stage in pipeline"
ProcessFailedErr == "failed to process query with pipeline"

\* the step names of the pipelines: the four registered stages and one that
\* is not registered
StepNames == DOMAIN RegisteredAtInit \cup {"stem"}

StepLists == UNION {[1..n -> StepNames] : n \in 1..MaxSteps}

PipelineNames == {"default_pipeline", "other_pipeline"}

\* a nil *config.QueryPlanningPipeline
NilPipeline == [Name |-> "", Steps |-> <<>>, isNil |-> TRUE]

QueryPlanningPipeline(name, steps) == [Name |-> name, Steps |-> steps, isNil |-> FALSE]

\* "", "pc", "A PC", "the  pc" and "The a b"
RawQueries ==
  { <<>>,
    <<"p", "c">>,
    <<"A", " ", "P", "C">>,
    <<"t", "h", "e", " ", " ", "p", "c">>,
    <<"T", "h", "e", " ", "a", " ", "b">> }

\* the lists of stopwords init() can load: none, or "the" and "a"
StopwordLists == {<<>>, << <<"t", "h", "e">>, <<"a">> >>}

\* a Go map with the one key k
MapOf(k, v) == [x \in {k} |-> v]

\* the stageConfigs ExecutePipeline is called with: no entry, or an entry for
\* remove_stopwords with a list of stopwords or with a string
StageConfigs ==
  {<<>>}
    \cup {MapOf("remove_stopwords", MapOf("stopwords", StringList(l))) :
            l \in StopwordLists}
    \cup {MapOf("remove_stopwords", MapOf("stopwords", StringValue(<<"a">>)))}

\* a configuration that passes validation, with the one pipeline p
ConfigurationWith(p) ==
  [IndexSchemas |-> << [Name |-> "products",
                        Fields |-> << [Name |-> "id", Type |-> "integer"] >>] >>,
   ComputedFields |-> <<>>,
   QueryPlanningPipelines |-> <<p>>]

\* init() has registered the four stages; a raw query and a configuration
InitQuery ==
  /\ searchers = <<>>
  /\ searchFunc = <<>>
  /\ searchersByShard = NewBroker(searchers)
  /\ RequestInit
  /\ NoWritePath
  /\ NoServices
  /\ stages = RegisteredAtInit
  /\ registryMu = NoCaller
  /\ registrants = <<>>
  /\ \E name \in PipelineNames, steps \in StepLists :
       cfg = ConfigurationWith(QueryPlanningPipeline(name, steps))
  /\ loaded = <<>>
  /\ rawQuery \in RawQueries
  /\ qpc = "start"
  /\ pipeline = NilPipeline
  /\ stageConfigs = <<>>
  /\ currentQuery = <<>>
  /\ executed = <<>>
  /\ processed = <<>>

\* return query, err from the function named by from; ProcessClientQuery
\* wraps the error of ExecutePipeline
Return(from, query, err, stage, pl) ==
  /\ qpc' = "returned"
  /\ processed' =
       [from |-> from,
        query |-> IF from = "ProcessClientQuery" /\ err # <<>> THEN <<>> ELSE query,
        err |-> IF from = "ProcessClientQuery" /\ err # <<>>
                     /\ err[1] # PipelineNotFoundErr
                THEN <<ProcessFailedErr>> \o err ELSE err,
        stage |-> stage,
        pipeline |-> pl]

\* ProcessClientQuery down to the call of ExecutePipeline: the pipeline named
\* default_pipeline and the stopwords loaded by init()
ProcessClientQuery ==
  /\ qpc = "start"
  /\ LET found == {i \in DOMAIN cfg.QueryPlanningPipelines :
                     cfg.QueryPlanningPipelines[i].Name = "default_pipeline"}
     IN  IF found = {}
         THEN /\ Return("ProcessClientQuery", <<>>, <<PipelineNotFoundErr>>, "",
                        "default_pipeline")
              /\ UNCHANGED <<pipeline, stageConfigs, currentQuery>>
         ELSE /\ \E defaultStopwords \in StopwordLists :
                   stageConfigs' =
                     MapOf("remove_stopwords",
                           MapOf("stopwords", StringList(defaultStopwords)))
              /\ pipeline' = cfg.QueryPlanningPipelines[
                               CHOOSE i \in found : \A j \in found : i <= j]
              /\ currentQuery' = rawQuery
              /\ qpc' = "ProcessClientQuery"
              /\ UNCHANGED processed
  /\ UNCHANGED <<stages, registryMu, registrants, cfg, loaded, rawQuery, executed>>
  /\ UNCHANGED <<brokerVars, requestVars, writePathVars, serviceVars>>

\* a call of ExecutePipeline(pl, rawQuery, configs), down to the loop
ExecutePipeline(pl, configs) ==
  /\ qpc = "start"
  /\ IF pl.isNil
     THEN /\ Return("ExecutePipeline", <<>>, <<PipelineNilErr>>, "", "")
          /\ UNCHANGED <<pipeline, stageConfigs, currentQuery>>
     ELSE /\ pipeline' = pl
          /\ stageConfigs' = configs
          /\ currentQuery' = rawQuery
          /\ qpc' = "ExecutePipeline"
          /\ UNCHANGED processed
  /\ UNCHANGED <<stages, registryMu, registrants, cfg, loaded, rawQuery, executed>>
  /\ UNCHANGED <<brokerVars, requestVars, writePathVars, serviceVars>>

\* a loop that takes the steps from the last to the first
StepAtReversed(steps, k) == steps[Len(steps) + 1 - k]

\* for _, stageName := range pipeline.Steps: the step of iteration k
StepAt(steps, k) == steps[k]

\* ExecutePipeline, one iteration of the loop over pipeline.Steps; the
\* iterations before it have each executed one stage
ExecuteStage ==
  /\ qpc \in {"ProcessClientQuery", "ExecutePipeline"}
  /\ Len(executed) < Len(pipeline.Steps)
  /\ LET stageName == StepAt(pipeline.Steps, Len(executed) + 1)
         got == Get(stageName)
         configForStage == IF stageName \in DOMAIN stageConfigs
                           THEN stageConfigs[stageName] ELSE <<>>
     IN  IF ~got.found
         THEN /\ Return(qpc, <<>>, <<StageNotFoundErr>>, stageName, pipeline.Name)
              /\ UNCHANGED <<currentQuery, executed>>
         ELSE LET res == Process(got.stage, currentQuery, configForStage)
              IN  /\ executed' = Append(executed,
                                        [stage |-> stageName,
                                         input |-> currentQuery,
                                         output |-> res.query,
                                         err |-> res.err])
                  /\ IF res.err # NoErr
                     THEN /\ Return(qpc, <<>>, <<StageFailedErr, res.err>>,
                                    stageName, pipeline.Name)
                          /\ UNCHANGED currentQuery
                     ELSE /\ currentQuery' = res.query
                          /\ UNCHANGED <<qpc, processed>>
  /\ UNCHANGED <<stages, registryMu, registrants, cfg, loaded, rawQuery,
                 pipeline, stageConfigs>>
  /\ UNCHANGED <<brokerVars, requestVars, writePathVars, serviceVars>>

\* ExecutePipeline after the last iteration: return currentQuery, nil
ExecuteReturn ==
  /\ qpc \in {"ProcessClientQuery", "ExecutePipeline"}
  /\ Len(executed) = Len(pipeline.Steps)
  /\ Return(qpc, currentQuery, <<>>, "", pipeline.Name)
  /\ UNCHANGED <<stages, registryMu, registrants, cfg, loaded, rawQuery,
                 pipeline, stageConfigs, currentQuery, executed>>
  /\ UNCHANGED <<brokerVars, requestVars, writePathVars, serviceVars>>

NextQuery ==
  \/ ProcessClientQuery
  \/ \E pl \in Range(cfg.QueryPlanningPipelines) \cup {NilPipeline},
        configs \in StageConfigs :
       ExecutePipeline(pl, configs)
  \/ ExecuteStage
  \/ ExecuteReturn

SpecQuery == InitQuery /\ [][NextQuery]_vars

(***************************************************************************)
(* Query Understanding: LoadConfig and ValidateConfiguration, on the       *)
(* Configuration the YAML file unmarshals to.                              *)
(***************************************************************************)
MaxFields == 2

NoSchemasErr == "at least one index schema must be defined"
SchemaNameErr == "index schema name cannot be empty"
NoFieldsErr == "index schema must define at least one field"
FieldNameErr == "field name in schema cannot be empty"
FieldTypeErr == "field in schema must have a type"
FieldTypeUnsupportedErr == "field in schema has an unsupported type"
ComputedNameErr == "computed field name cannot be empty"
ComputedExpressionErr == "computed field must have an expression"
ComputedTypeErr == "computed field must have a type"
ComputedTypeUnsupportedErr == "computed field has an unsupported type"
PipelineNameErr == "query planning pipeline name cannot be empty"
NoStepsErr == "query planning pipeline must define at least one step"
EmptyStepErr == "query planning pipeline contains an empty step"
ValidationFailedErr == "configuration validation failed"

FieldTypes == {"string", "text", "integer", "float", "boolean", "datetime"}
ComputedTypes == {"string", "integer", "float", "boolean"}

\* the error of the first return statement a loop over items reaches
FirstError(items, ItemError(_)) ==
  LET failing == {i \in DOMAIN items : ItemError(items[i]) # NoErr}
  IN  IF failing = {} THEN NoErr
      ELSE ItemError(items[CHOOSE i \in failing : \A j \in failing : i <= j])

FieldError(field) ==
  IF field.Name = "" THEN FieldNameErr
  ELSE IF field.Type = "" THEN FieldTypeErr
  ELSE IF field.Type \notin FieldTypes THEN FieldTypeUnsupportedErr
  ELSE NoErr

SchemaError(schema) ==
  IF schema.Name = "" THEN SchemaNameErr
  ELSE IF Len(schema.Fields) = 0 THEN NoFieldsErr
  ELSE FirstError(schema.Fields, FieldError)

ComputedFieldError(cField) ==
  IF cField.Name = "" THEN ComputedNameErr
  ELSE IF cField.Expression = "" THEN ComputedExpressionErr
  ELSE IF cField.Type = "" THEN ComputedTypeErr
  ELSE IF cField.Type \notin ComputedTypes THEN ComputedTypeUnsupportedErr
  ELSE NoErr

EmptyStepError(step) == IF step = "" THEN EmptyStepErr ELSE NoErr

PipelineError(pl) ==
  IF pl.Name = "" THEN PipelineNameErr
  ELSE IF Len(pl.Steps) = 0 THEN NoStepsErr
  ELSE FirstError(pl.Steps, EmptyStepError)

\* ValidateConfiguration of a non-nil configuration
ValidateConfiguration(c) ==
  IF Len(c.IndexSchemas) = 0 THEN NoSchemasErr
  ELSE IF FirstError(c.IndexSchemas, SchemaError) # NoErr
  THEN FirstError(c.IndexSchemas, SchemaError)
  ELSE IF FirstError(c.ComputedFields, ComputedFieldError) # NoErr
  THEN FirstError(c.ComputedFields, ComputedFieldError)
  ELSE FirstError(c.QueryPlanningPipelines, PipelineError)

\* the sequences of at most n elements of S
SeqUpTo(S, n) == UNION {[1..k -> S] : k \in 0..n}

SchemaFields == [Name : {"", "id", "title"}, Type : {"", "text", "blob"}]
IndexSchemas == [Name : {"", "products"}, Fields : SeqUpTo(SchemaFields, MaxFields)]
ComputedFields ==
  [Name : {"full_name"}, Expression : {"", "first + last"}, Type : {"string", "datetime"}]
Pipelines ==
  [Name : {"", "default_pipeline"}, Steps : SeqUpTo({"", "tokenize"}, MaxSteps)]

\* the configurations a YAML file unmarshals to: at most one schema, at most
\* one computed field and at most one pipeline
Configurations ==
  [IndexSchemas : SeqUpTo(IndexSchemas, 1),
   ComputedFields : SeqUpTo(ComputedFields, 1),
   QueryPlanningPipelines : SeqUpTo(Pipelines, 1)]

InitConfig ==
  /\ searchers = <<>>
  /\ searchFunc = <<>>
  /\ searchersByShard = NewBroker(searchers)
  /\ RequestInit
  /\ NoWritePath
  /\ NoServices
  /\ stages = <<>>
  /\ registryMu = NoCaller
  /\ registrants = <<>>
  /\ cfg \in Configurations
  /\ loaded = <<>>
  /\ rawQuery = <<>>
  /\ qpc = "idle"
  /\ pipeline = <<>>
  /\ stageConfigs = <<>>
  /\ currentQuery = <<>>
  /\ executed = <<>>
  /\ processed = <<>>

\* LoadConfig after the file is read and unmarshalled into cfg
LoadConfig ==
  /\ loaded = <<>>
  /\ loaded' = IF ValidateConfiguration(cfg) # NoErr
               THEN [config |-> <<>>, isNil |-> TRUE,
                     err |-> <<ValidationFailedErr, ValidateConfiguration(cfg)>>]
               ELSE [config |-> cfg, isNil |-> FALSE, err |-> <<>>]
  /\ UNCHANGED <<stages, registryMu, registrants, cfg, rawQuery, qpc, pipeline,
                 stageConfigs, currentQuery, executed, processed>>
  /\ UNCHANGED <<brokerVars, requestVars, writePathVars, serviceVars>>

SpecConfig == InitConfig /\ [][LoadConfig]_vars

(***************************************************************************)
(* Properties of Broker.Search.                                            *)
(***************************************************************************)
Dispatched == {s \in Handles : gstate[s] # "none"}
Succeeded == {s \in Handles : returned[s].err = NoErr}
Failed == {s \in Handles : returned[s].err \notin {NoErr, "none"}}

\* Search ran the fan-out and returned through the merge
Merged == pc = "done" /\ quErr = NoErr /\ ret.err # NoShardsErr

IDsOf(results) == {results[i].ID : i \in DOMAIN results}

RECURSIVE ArrivedFrom(_)
\* the result lists of the Searchers that succeeded, concatenated in arrival order
ArrivedFrom(k) ==
  IF k > Len(arrival) THEN <<>>
  ELSE returned[arrival[k]].results \o ArrivedFrom(k + 1)

FirstPos(results, id) ==
  CHOOSE k \in DOMAIN results :
    results[k].ID = id /\ \A j \in 1..(k - 1) : results[j].ID # id

SortedShardIDs ==
  CHOOSE p \in MapOrders(searchersByShard) :
    \A i, j \in DOMAIN p : i < j => p[i] < p[j]

\* C1: the output of Search holds exactly one element per distinct ID among
\* the results of the Searchers that succeeded; the element kept for an ID is
\* its first occurrence in the concatenated arrival-order list, and the output
\* keeps the order of the first occurrences.
C1_MergeKeepsFirstOccurrences ==
  Merged =>
    LET out == ret.results
        arrived == ArrivedFrom(1)
    IN  /\ ret.err = NoErr
        /\ Range(arrival) = Succeeded
        /\ IDsOf(out) = UNION {IDsOf(returned[s].results) : s \in Succeeded}
        /\ \A i, j \in DOMAIN out : i # j => out[i].ID # out[j].ID
        /\ \A i \in DOMAIN out : out[i] = arrived[FirstPos(arrived, out[i].ID)]
        /\ \A i, j \in DOMAIN out :
             i < j => FirstPos(arrived, out[i].ID) < FirstPos(arrived, out[j].ID)

\* two Searchers returned the same ID, the second Searcher of the list arrived
\* first, and its element is the one kept
C1_Witness ==
  /\ Merged
  /\ Len(arrival) = 2
  /\ arrival[1] > arrival[2]
  /\ Len(allResults) = 2
  /\ allResults[1].ID = allResults[2].ID
  /\ ret.results = <<returned[arrival[1]].results[1]>>

\* C2: when at least one dispatched Searcher succeeds and at least one fails,
\* Search returns a nil error and its output holds every distinct ID returned
\* by the Searchers that succeeded.
C2_PartialFailureIsSuccess ==
  (pc = "done" /\ Succeeded # {} /\ Failed # {}) =>
    /\ ret.err = NoErr
    /\ \A s \in Succeeded : IDsOf(returned[s].results) \subseteq IDsOf(ret.results)

C2_Witness ==
  /\ pc = "done"
  /\ Succeeded # {}
  /\ Failed # {}
  /\ ret.err = NoErr
  /\ ret.results # <<>>

\* C3 (as claimed): when at least one Searcher is dispatched and every
\* dispatched Searcher returns an error, Search returns a non-nil error.
C3_AllShardsFailedIsError ==
  (pc = "done" /\ Dispatched # {} /\ Dispatched \subseteq Failed) =>
    ret.err # NoErr

\* C4 (as claimed): when the request context is cancelled during the fan-out
\* and every dispatched Searcher call has returned the cancellation error,
\* Search returns a cancellation error, never a success.
C4_CancellationIsTerminal ==
  (/\ pc = "done"
   /\ ctxDone
   /\ Dispatched # {}
   /\ \A s \in Dispatched : returned[s].err = Canceled) =>
    ret.err = Canceled

\* C5 (as claimed): with at least one shard and a non-empty first keyword,
\* Search targets the shard at index hash(firstKeyword) mod N of the shard
\* ids taken in sorted order.
C5_RoutingUsesSortedShardIDs ==
  (/\ pc = "fanout"
   /\ Len(structuredQuery.Keywords) > 0
   /\ structuredQuery.Keywords[1] # <<>>) =>
    LET n == Cardinality(DOMAIN searchersByShard)
    IN  targetShardIDs =
          <<SortedShardIDs[ShardIndex(structuredQuery.Keywords[1], n) + 1]>>

\* C6 (as claimed): with at least one keyword and a non-empty ShardMap, Search
\* targets exactly one shard: every Searcher of that shard is called exactly
\* once with the structured query, and no Searcher of another shard is called.
C6_KeywordQueryTargetsOneShard ==
  (/\ pc # "idle"
   /\ quErr = NoErr
   /\ Len(structuredQuery.Keywords) > 0
   /\ DOMAIN searchersByShard # {}) =>
    /\ pc \in {"fanout", "done"}
    /\ Len(targetShardIDs) = 1
    /\ \A s \in Handles :
         IF searchers[s] = targetShardIDs[1]
         THEN /\ Len(calls[s]) <= 1
              /\ pc = "done" => calls[s] = <<structuredQuery>>
         ELSE calls[s] = <<>>

\* C7: when the structured query has no keywords, Search calls every Searcher
\* of every shard of the ShardMap exactly once, and when all of them succeed
\* the output holds the IDs of every shard's results.
C7_NoKeywordsBroadcast ==
  (pc \in {"fanout", "done"} /\ quErr = NoErr /\ structuredQuery.Keywords = <<>>) =>
    /\ \A shardID \in DOMAIN searchersByShard :
         \A k \in DOMAIN searchersByShard[shardID] :
           LET s == searchersByShard[shardID][k]
           IN  /\ Len(calls[s]) <= 1
               /\ pc = "done" => calls[s] = <<structuredQuery>>
    /\ (pc = "done" /\ Succeeded = Handles) =>
         /\ ret.err = NoErr
         /\ \A s \in Handles : IDsOf(returned[s].results) \subseteq IDsOf(ret.results)

\* two shards, both Searchers succeed with different IDs, both IDs are returned
C7_Witness ==
  /\ pc = "done"
  /\ quErr = NoErr
  /\ structuredQuery.Keywords = <<>>
  /\ Cardinality(DOMAIN searchersByShard) = 2
  /\ Succeeded = Handles
  /\ \A s \in Handles : calls[s] = <<structuredQuery>>
  /\ Len(ret.results) = 2

\* C8: a Broker built from zero Searchers fails a query that has a keyword
\* with "no searchers available", returns no results and calls no Searcher.
C8_NoSearchersKeywordQuery ==
  (/\ pc # "idle"
   /\ quErr = NoErr
   /\ Len(searchers) = 0
   /\ Len(structuredQuery.Keywords) > 0) =>
    /\ pc = "done"
    /\ ret = [results |-> <<>>, err |-> NoShardsErr]
    /\ wg = 0
    /\ Dispatched = {}

C8_Witness ==
  /\ pc = "done"
  /\ quErr = NoErr
  /\ Len(searchers) = 0
  /\ Len(structuredQuery.Keywords) > 0
  /\ ret.err = NoShardsErr

\* C9 (as claimed): a Broker built from zero Searchers fails a query that has
\* no keywords with "no searchers available" as well.
C9_NoSearchersNoKeywords ==
  (/\ pc = "done"
   /\ quErr = NoErr
   /\ Len(searchers) = 0
   /\ structuredQuery.Keywords = <<>>) =>
    ret.err = NoShardsErr

\* C10: when Process returns an error, Search returns that same error and no
\* results, and no Searcher call is dispatched, however many Searchers the
\* Broker has.
C10_QUFailureReturnedUnwrapped ==
  (pc # "idle" /\ quErr # NoErr) =>
    /\ pc = "done"
    /\ ret = [results |-> <<>>, err |-> quErr]
    /\ wg = 0
    /\ \A s \in Handles : gstate[s] = "none" /\ calls[s] = <<>>

\* Process failed on a Broker that has two Searchers
C10_Witness ==
  /\ pc = "done"
  /\ quErr = QUErr
  /\ ret.err = QUErr
  /\ Len(searchers) = 2

\* C11 (as claimed): in the de-duplication scenario the output of Search is
\* a, b, c, d with the b of the first Searcher, whatever the order in which the
\* two Searcher calls finish.
C11_DedupOrderFixed ==
  (Merged /\ Succeeded = {1, 2}) =>
    ret.results = <<DedupList1[1], DedupList1[2], DedupList1[3], DedupList2[2]>>

\* C11 (amended): in the de-duplication scenario the output of Search holds
\* a, b, c, d once each; it is a, b, c, d with the b of the first Searcher
\* when the first Searcher's results are appended first, and b, d, a, c with
\* the b of the second Searcher when the second Searcher's are appended first.
C11_DedupOrderFollowsArrival ==
  (Merged /\ Succeeded = {1, 2}) =>
    /\ Len(ret.results) = 4
    /\ IDsOf(ret.results) = {"a", "b", "c", "d"}
    /\ arrival = <<1, 2>> =>
         ret.results = <<DedupList1[1], DedupList1[2], DedupList1[3], DedupList2[2]>>
    /\ arrival = <<2, 1>> =>
         ret.results = <<DedupList2[1], DedupList2[2], DedupList1[1], DedupList1[3]>>

\* the second Searcher's results were appended first and its b was kept
C11_Witness ==
  /\ Merged
  /\ Succeeded = {1, 2}
  /\ arrival = <<2, 1>>
  /\ ret.results[1] = DedupList2[1]

(***************************************************************************)
(* Properties of the Indexer and the Segment Store.                        *)
(***************************************************************************)
IsCommit(c) == op[c].name = "CommitAndUpload"

\* the call of c has created the lock file and has not returned
HoldsLockFile(c) == ipc[c] \in {"uploading", "releasing"}

\* the call of c is inside storage.UploadSegment
InUploadSegment(c) == ipc[c] = "uploading"

\* the call of c has returned
Returned(c) == ipc[c] = "idle" /\ result[c] # "none"

Prefixes == {k[1] : k \in DOMAIN segmentStore}

C15_UploadsMutuallyExclusive ==
  /\ Cardinality({c \in Callers : InUploadSegment(c)}) <= 1
  /\ \A c \in Callers : InUploadSegment(c) => lockFile = c

\* a call is uploading its second file and the call on the other Indexer was
\* rejected meanwhile
C15_Witness ==
  /\ opCount = 2
  /\ \E c, o \in Callers :
       /\ InUploadSegment(c)
       /\ frame[c].file = 2
       /\ Returned(o)
       /\ result[o] = IndexLocked
       /\ op[o].ix # op[c].ix

\* C17: with S3Storage, a file is attempted at most 3 times and a success ends
\* its attempts; the wait after the k-th failed attempt is min(2^(k-1), 8)
\* seconds for k = 1, 2 and there is no wait after the third; when the last
\* file fails twice and then succeeds, CommitAndUpload succeeds and at least
\* 3 seconds have passed since UploadSegment started.
C17_RetryPolicy ==
  storage = "s3" =>
    \A c \in Callers :
      LET fr == frame[c]
      IN  /\ fr.attempt <= 3
          /\ fr.err = NoErr => fr.attempt <= 2
          /\ fr.attempt = 3 => fr.err # NoErr /\ ~InUploadSegment(c)
          /\ Len(fr.slept) = IF fr.attempt < 3 THEN fr.attempt ELSE 2
          /\ \A k \in DOMAIN fr.slept :
               fr.slept[k] = IF 2 ^ (k - 1) < 8 THEN 2 ^ (k - 1) ELSE 8
          /\ (HoldsLockFile(c) \/ Returned(c)) /\ fr.attempt = 2 /\ fr.err = NoErr =>
               /\ now - fr.start >= 3
               /\ Returned(c) => result[c] = NoErr

\* the last file failed twice, then succeeded, and the call returned nil
C17_Witness ==
  /\ storage = "s3"
  /\ \E c \in Callers :
       /\ Returned(c)
       /\ result[c] = NoErr
       /\ frame[c].file = Len(SegmentFiles)
       /\ frame[c].attempt = 2
       /\ frame[c].slept = <<1, 2>>

C19_FreshSegmentPrefix ==
  \A j, k \in DOMAIN uploaded : j # k => uploaded[j] # uploaded[k]

\* the call of c holds i.mu of its Indexer
InsideMethod(c) == ipc[c] \in {"locked", "uploading", "releasing"}

\* the call of c is a BulkIndexDocuments that has written some of the
\* documents of its batch and not all
PartlyApplied(c) ==
  /\ op[c].name = "BulkIndexDocuments"
  /\ ipc[c] = "locked"
  /\ frame[c].pending # {}
  /\ frame[c].pending # DOMAIN op[c].docs

\* C16: at most one call of IndexDocument, DeleteDocument, BulkIndexDocuments,
\* CommitAndUpload and Close is past i.mu.Lock() on one Indexer at any time;
\* so while a CommitAndUpload creates the lock file, uploads or releases, no
\* BulkIndexDocuments on that Indexer has its batch partly applied.
C16_IndexerMethodsExclusive ==
  /\ \A i \in Indexers :
       Cardinality({c \in Callers : op[c].ix = i /\ InsideMethod(c)}) <= 1
  /\ \A c, o \in Callers :
       (IsCommit(c) /\ InsideMethod(c) /\ o # c /\ op[o].ix = op[c].ix) =>
         ~PartlyApplied(o)

\* a CommitAndUpload waits for i.mu while a BulkIndexDocuments on the same
\* Indexer has written one of its two documents
C16_Witness ==
  \E c, o \in Callers :
    /\ IsCommit(c)
    /\ ipc[c] = "waiting"
    /\ op[o].ix = op[c].ix
    /\ PartlyApplied(o)
    /\ mu[op[o].ix] = o

\* C20 (as claimed): once CommitAndUpload has stored a segment in which d has
\* the data v2 and the Searcher has refreshed after that, the Searcher finds
\* d with the data v2.
C20_RefreshServesNewSegment ==
  (/\ uploaded # <<>>
   /\ refreshed = uploaded
   /\ \A f \in DOMAIN SegmentFiles :
        LET key == <<uploaded[Len(uploaded)], SegmentFiles[f]>>
        IN  key \in DOMAIN segmentStore /\ segmentStore[key]["d"] = "v2") =>
    SearcherFinds("d") = "v2"


\* the step by which caller c's call of method name returns
ReturnsFrom(c, name) ==
  /\ ipc[c] = "locked"
  /\ op[c].name = name
  /\ ipc'[c] = "idle"

HoldsBatch(c) ==
  \A id \in DOMAIN op[c].docs : index[op[c].ix][id] = op[c].docs[id]

\* C22: a BulkIndexDocuments(B) that returns nil leaves every id of B mapped
\* to its document in B, and a BulkIndexDocuments(B) on an index that already
\* maps every id of B to its document in B changes nothing: B applied twice
\* leaves the state B applied once leaves.
C22_BulkIndexIdempotent ==
  [][\A c \in Callers :
       (ipc[c] = "locked" /\ op[c].name = "BulkIndexDocuments") =>
         /\ (ipc'[c] = "idle" /\ result'[c] = NoErr) => HoldsBatch(c)'
         /\ HoldsBatch(c) => index' = index]_vars

\* the same batch has been applied twice, and both calls returned nil
C22_Witness ==
  /\ opCount = 2
  /\ \A c \in Callers : Returned(c) /\ result[c] = NoErr /\ HoldsBatch(c)
  /\ \E i \in Indexers, b \in Batches :
       \A c \in Callers : op[c] = BulkOp(i, b)


\* the UploadSegment of caller c's call is given a path that is no directory
BadSegmentPath(c) ==
  /\ IsCommit(c)
  /\ lockFile = c
  /\ segmentPathInfo[op[c].ix] # IsDir

\* C23: UploadSegment on a path that does not exist fails with PathMissing,
\* on a path that is a regular file with NotDirectory, under both storages;
\* it writes nothing to the Segment Store, and CommitAndUpload returns the
\* upload error.
C23_BadSegmentPathRejected ==
  /\ [](\A c \in Callers :
          BadSegmentPath(c) =>
            /\ ipc[c] = "releasing"
            /\ segmentPathInfo[op[c].ix] = NotExist => frame[c].err = PathMissing
            /\ segmentPathInfo[op[c].ix] = RegularFile
                 => frame[c].err = NotDirectory)
  /\ [][\A c \in Callers :
          (BadSegmentPath(c) \/ BadSegmentPath(c)') =>
            /\ segmentStore' = segmentStore
            /\ ipc'[c] = "idle" => result'[c] = UploadErr]_vars

\* the upload of a missing path has failed and its CommitAndUpload has
\* returned; the upload of a regular file has failed, its CommitAndUpload is
\* about to return
C23_Witness ==
  /\ segmentStore = <<>>
  /\ \E c1, c2 \in Callers :
       /\ Returned(c1) /\ result[c1] = UploadErr /\ frame[c1].err = PathMissing
       /\ lockFile = c2 /\ frame[c2].err = NotDirectory

\* the callers of Register(name, _) that have returned nil
Registered(name) ==
  {p \in Registrants :
     /\ registrants[p].pc = "done"
     /\ registrants[p].name = name
     /\ registrants[p].err = NoErr}

\* C25: Register of a name that is already registered returns an error and
\* leaves the registry as it is, so Get still returns the stage registered
\* first; otherwise it returns nil and Get returns the new stage.  Of the
\* Register calls of one name, concurrent or not, exactly one returns nil.
C25_DuplicateRegisterRejected ==
  /\ [](\A p \in Registrants :
          registrants[p].pc = "done" =>
            /\ Cardinality(Registered(registrants[p].name)) = 1
            /\ \A q \in Registered(registrants[p].name) :
                 Get(registrants[p].name) =
                   [stage |-> registrants[q].stage, found |-> TRUE])
  /\ [][\A p \in Registrants :
          (registrants[p].pc = "locked" /\ registrants'[p].pc = "done") =>
            IF registrants[p].name \in DOMAIN stages
            THEN /\ registrants'[p].err = AlreadyRegisteredErr
                 /\ stages' = stages
            ELSE /\ registrants'[p].err = NoErr
                 /\ Get(registrants[p].name)' =
                      [stage |-> registrants[p].stage, found |-> TRUE]]_vars

\* two concurrent Register calls of one name with different stages have
\* returned: one nil, one the error, and Get returns the stage of the first
C25_Witness ==
  \E p, q \in Registrants :
    /\ registrants[p].pc = "done" /\ registrants[q].pc = "done"
    /\ registrants[p].concurrent /\ registrants[q].concurrent
    /\ registrants[p].name = registrants[q].name
    /\ registrants[p].stage # registrants[q].stage
    /\ registrants[p].err = NoErr
    /\ registrants[q].err = AlreadyRegisteredErr
    /\ Get(registrants[p].name).stage = registrants[p].stage

(***************************************************************************)
(* Properties of the Query Understanding pipeline.                         *)
(***************************************************************************)
\* a call of ExecutePipeline with a pipeline has returned
ExecutePipelineReturned ==
  /\ qpc = "returned"
  /\ processed.from = "ExecutePipeline"
  /\ ~pipeline.isNil

\* the steps whose name is not registered or whose stage returned an error
BadSteps ==
  {k \in DOMAIN pipeline.Steps :
     \/ pipeline.Steps[k] \notin DOMAIN stages
     \/ k <= Len(executed) /\ executed[k].err # NoErr}

\* C24: ExecutePipeline executes the stages in the declared order of the
\* steps, the first on the raw query and each later one on the output of the
\* stage before it.  When no step is unregistered or fails, it returns the
\* output of the last stage; otherwise it returns an empty result and an error
\* naming the pipeline and the first such step k, and no stage after step k
\* has been executed.
C24_StepsInDeclaredOrder ==
  /\ \A k \in DOMAIN executed :
       /\ executed[k].stage = pipeline.Steps[k]
       /\ executed[k].input = IF k = 1 THEN rawQuery ELSE executed[k - 1].output
  /\ ExecutePipelineReturned =>
       IF BadSteps = {}
       THEN /\ processed.err = <<>>
            /\ Len(executed) = Len(pipeline.Steps)
            /\ processed.query = executed[Len(executed)].output
       ELSE LET k == CHOOSE i \in BadSteps : \A j \in BadSteps : i <= j
            IN  /\ processed.err # <<>>
                /\ processed.query = <<>>
                /\ processed.stage = pipeline.Steps[k]
                /\ processed.pipeline = pipeline.Name
                /\ Len(executed) <= k

\* a pipeline of three steps has returned the error of its second stage,
\* remove_stopwords, which was given the output of the first stage
C24_Witness ==
  /\ ExecutePipelineReturned
  /\ Len(pipeline.Steps) = 3
  /\ Len(executed) = 2
  /\ processed.err = <<StageFailedErr, StopwordsTypeErr>>
  /\ processed.stage = "remove_stopwords"
  /\ executed[1].output # rawQuery
  /\ executed[2].input = executed[1].output

\* C26: processing an empty raw query fails with InvalidInput: no stage is
\* run and no structured query is produced.
C26_EmptyQueryRejected ==
  (qpc = "returned" /\ processed.from = "ProcessClientQuery" /\ rawQuery = <<>>) =>
    /\ processed.err # <<>>
    /\ executed = <<>>

HasUpper(s) == \E i \in DOMAIN s : IsUpper(s[i])

C28_SynonymExpansionIdempotent ==
  \A k \in DOMAIN executed :
    (/\ k > 1
     /\ executed[k].stage = "synonym_expansion"
     /\ executed[k - 1].stage = "synonym_expansion") =>
      executed[k].output = executed[k - 1].output

\* the stopwords remove_stopwords is configured with
ConfiguredStopwords ==
  IF "remove_stopwords" \notin DOMAIN stageConfigs THEN {}
  ELSE IF "stopwords" \notin DOMAIN stageConfigs["remove_stopwords"] THEN {}
  ELSE Range(stageConfigs["remove_stopwords"]["stopwords"].value)

\* C29: remove_stopwords removes exactly the whitespace-separated tokens equal
\* to a configured stopword, keeps the other tokens in their order, and
\* returns the query unchanged when no stopwords are configured.
C29_RemovesExactlyStopwords ==
  \A k \in DOMAIN executed :
    (executed[k].stage = "remove_stopwords" /\ executed[k].err = NoErr) =>
      /\ Fields(executed[k].output) =
           SelectSeq(Fields(executed[k].input),
                     LAMBDA t : t \notin ConfiguredStopwords)
      /\ ConfiguredStopwords = {} => executed[k].output = executed[k].input

\* two fields of one schema have the same name
DuplicateFieldName(schema) ==
  \E i, j \in DOMAIN schema.Fields :
    i # j /\ schema.Fields[i].Name = schema.Fields[j].Name

\* C30: LoadConfig returns an error and no configuration for every
\* configuration with an empty schema list, with two fields of the same name
\* in one schema, with a pipeline of zero steps, or with a pipeline that has an
\* empty step name.
C30_InvalidConfigurationRejected ==
  (/\ loaded # <<>>
   /\ \/ cfg.IndexSchemas = <<>>
      \/ \E i \in DOMAIN cfg.IndexSchemas : DuplicateFieldName(cfg.IndexSchemas[i])
      \/ \E i \in DOMAIN cfg.QueryPlanningPipelines :
           \/ cfg.QueryPlanningPipelines[i].Steps = <<>>
           \/ "" \in Range(cfg.QueryPlanningPipelines[i].Steps)) =>
    /\ loaded.err # <<>>
    /\ loaded.isNil

\* C31 (as claimed): POST /commit answers 409 when CommitAndUpload fails
\* because the lock file is held, 500 when the upload fails, and 200 only when
\* commit and upload succeeded.
C31_CommitStatusCodes ==
  \A c \in Callers :
    (IsCommit(c) /\ Returned(c)) =>
      /\ result[c] = IndexLocked =>
           HandleCommitRequest(result[c]) = StatusConflict
      /\ result[c] = UploadErr =>
           HandleCommitRequest(result[c]) = StatusInternalServerError
      /\ HandleCommitRequest(result[c]) = StatusOK =>
           /\ result[c] = NoErr
           /\ \A f \in DOMAIN SegmentFiles :
                <<frame[c].prefix, SegmentFiles[f]>> \in DOMAIN segmentStore

\* the Searchers of the input slice that report shard k
ReportingShard(k) == {i \in Handles : searchers[i] = k}

\* C35: the ShardMap built by NewBroker holds every given Searcher in the list
\* of exactly the shard it reports, in input order within a shard; it has no
\* key for a shard without Searchers (zero Searchers give the empty map); and
\* no step of Broker.Search changes the ShardMap.
C35_NewBrokerGroupsByShard ==
  /\ [](DOMAIN searchersByShard = {k \in ShardIDs : ReportingShard(k) # {}})
  /\ [](\A k \in DOMAIN searchersByShard :
          LET replicas == searchersByShard[k]
          IN  /\ Range(replicas) = ReportingShard(k)
              /\ \A a, b \in DOMAIN replicas : a < b => replicas[a] < replicas[b])
  /\ [](searchers = <<>> => searchersByShard = EmptyMap)
  /\ [][searchersByShard' = searchersByShard]_vars

\* two Searchers report the same shard, both were called by a Search that has
\* returned, and the map still lists them in input order
C35_Witness ==
  /\ Len(searchers) = 2
  /\ searchers[1] = searchers[2]
  /\ searchersByShard[searchers[1]] = <<1, 2>>
  /\ pc = "done"
  /\ Dispatched = {1, 2}

\* C36: the capacity of the error channel is the number of dispatched
\* Searchers, so a goroutine that has not finished always finds room for its
\* error; Search passes wg.Wait() and reads the collected results only when
\* every dispatched goroutine has finished; and a Search that has dispatched
\* returns, whatever number of its Searchers fail.
C36_ErrorReportNeverBlocks ==
  /\ [](pc = "fanout" => errCap = Cardinality(Dispatched))
  /\ [](\A s \in Handles :
          gstate[s] \in {"spawned", "inflight"} => Len(errChan) < errCap)
  /\ [][(pc = "fanout" /\ pc' = "done") =>
          \A s \in Dispatched : gstate[s] = "done" /\ returned[s] # NoOutcome]_vars
  /\ (pc = "fanout") ~> (pc = "done")

\* two Searchers were dispatched, both failed and Search has returned
C36_Witness ==
  /\ pc = "done"
  /\ Dispatched = {1, 2}
  /\ Failed = {1, 2}
  /\ errCap = 2

\* C37 (as claimed): for every first keyword and every non-empty ShardMap the
\* index hash mod number-of-shards lies in [0, number of shards), also when
\* the multiplication overflows, and Search never indexes the shard list out
\* of range.
C37_ShardIndexInRange ==
  /\ pc # "panicked"
  /\ (/\ quErr = NoErr
      /\ Len(structuredQuery.Keywords) > 0
      /\ DOMAIN searchersByShard # {}) =>
       LET n == Cardinality(DOMAIN searchersByShard)
       IN  ShardIndex(structuredQuery.Keywords[1], n) \in 0..(n - 1)

\* the lock file was left behind by a call whose process stopped
StaleLockFile == lockFile # NoCaller /\ ipc[lockFile] = "stopped"

\* C38: while a lock file left behind by a stopped holder exists, every
\* CommitAndUpload that reaches the creation of the lock file returns
\* IndexLocked and nothing is uploaded; the file disappears only by the
\* removal from outside: no CommitAndUpload removes a lock file that another
\* call created.
C38_StaleLockFileBlocksCommits ==
  /\ [][\A c \in Callers :
          (StaleLockFile /\ ipc[c] = "locked" /\ IsCommit(c)
             /\ ipc'[c] # ipc[c]) =>
            /\ ipc'[c] = "idle"
            /\ result'[c] = IndexLocked]_vars
  /\ [][StaleLockFile =>
          /\ segmentStore' = segmentStore
          /\ uploaded' = uploaded
          /\ lockFile' # lockFile => RemoveStaleLockFile]_vars
  /\ [][\A c \in Callers :
          (IsCommit(c) /\ ipc[c] # "idle" /\ ipc'[c] = "idle"
             /\ lockFile' # lockFile) => lockFile = c]_vars

\* a process stopped holding the lock file before it uploaded anything, the
\* file is still there, three calls were made in all and the last call of the
\* other caller has been rejected with IndexLocked
C38_Witness ==
  /\ StaleLockFile
  /\ segmentStore = <<>>
  /\ opCount = 3
  /\ \E c \in Callers :
       /\ c # lockFile
       /\ Returned(c)
       /\ result[c] = IndexLocked

\* the call of c failed inside the walk of UploadSegment, on the file
\* frame[c].file
FailedOnFile(c) == IsCommit(c) /\ frame[c].err = FileUploadErr

\* the files the call of c uploaded before the current one are in the store
EarlierFilesStored(c) ==
  \A j \in 1..(frame[c].file - 1) :
    <<frame[c].prefix, SegmentFiles[j]>> \in DOMAIN segmentStore

\* C39: when UploadSegment fails on a file, the files it uploaded before are
\* in the Segment Store and stay there after CommitAndUpload has returned the
\* error, and the call writes nothing more: between the failure and the return
\* the Segment Store does not change.
C39_NoRollbackOfPartialUpload ==
  /\ [](\A c \in Callers : FailedOnFile(c) => EarlierFilesStored(c))
  /\ [][\A c \in Callers :
          (FailedOnFile(c) /\ ipc[c] = "releasing") =>
            /\ segmentStore' = segmentStore
            /\ ipc'[c] # ipc[c] => ipc'[c] = "idle" /\ result'[c] = UploadErr]_vars
  /\ [][\A k \in DOMAIN segmentStore : k \in DOMAIN segmentStore']_vars

\* the upload of the second file failed and CommitAndUpload has returned: the
\* first file of the segment is in the Segment Store, the second is not
C39_Witness ==
  \E c \in Callers :
    /\ FailedOnFile(c)
    /\ Returned(c)
    /\ result[c] = UploadErr
    /\ frame[c].file = 2
    /\ <<frame[c].prefix, SegmentFiles[1]>> \in DOMAIN segmentStore
    /\ <<frame[c].prefix, SegmentFiles[2]>> \notin DOMAIN segmentStore

\* Broker.Search has not been called for the request
SearchNotCalled ==
  /\ pc = "idle"
  /\ structuredQuery = NoQuery
  /\ \A s \in Handles : calls[s] = <<>>

FailedTick ==
  /\ Len(refreshTask'.ticks) = Len(refreshTask.ticks) + 1
  /\ refreshTask'.ticks[Len(refreshTask'.ticks)] = "failed"

\* C33: a refresh tick whose download fails leaves the Searcher's index and
\* the downloaded segments as they were and the task goes on waiting, so a
\* later tick attempts the download again; the task returns only after the
\* context was cancelled, and once the context is cancelled the task
\* eventually returns.
C33_RefreshTaskSurvivesFailure ==
  /\ [][FailedTick =>
          /\ searcherIndex' = searcherIndex
          /\ segmentsDir' = segmentsDir
          /\ refreshTask'.state = "select"]_vars
  /\ []((refreshTask.state = "select" /\ Len(refreshTask.ticks) < MaxTicks) =>
          ENABLED UpdateIndexTick)
  /\ [](refreshTask.state = "returned" => refreshTask.ctxDone)
  /\ (refreshTask.ctxDone ~> refreshTask.state = "returned")

\* a download failed, the next tick downloaded a segment, and the task has
\* returned after the cancellation
C33_Witness ==
  /\ refreshTask.ticks = <<"failed", "downloaded">>
  /\ segmentsDir = {2}
  /\ refreshTask.state = "returned"

\* C34 (as claimed): a search that matches no document is answered 200 with
\* an empty result list and total_hits 0, and no search request changes the
\* contents of the Searcher's index, so the same query against the unchanged
\* index gets the same result.
C34_SearchIsSideEffectFree ==
  /\ [][\A q \in SearchQueries :
          (SearchHandler(q) /\ q # "" /\ Hits(searcherIndex, q) = {}
             /\ searchResponse'.status = StatusOK) =>
            /\ searchResponse'.results = {}
            /\ searchResponse'.total_hits = 0]_vars
  /\ [][\A q \in SearchQueries :
          SearchHandler(q) => searcherIndex' = searcherIndex]_vars
  /\ [](searchResponse.status = StatusOK =>
          searchResponse.results = Hits(searcherIndex, searchResponse.query))

\* the Searchers whose call for request r returned results, returned an error
SucceededFor(r) == {s \in Handles : requests[r].returned[s].err = NoErr}
FailedFor(r) == {s \in Handles : requests[r].returned[s].err = SearcherErr}

\* C40: the output of a Search call holds only results that the Searcher
\* calls dispatched for this call returned, and it is the merge of exactly
\* those: the errors and the results of the Searchers of another call running
\* at the same time change neither its results nor its nil error.
C40_ConcurrentSearchesIndependent ==
  \A r \in Requests :
    LET call == requests[r]
    IN  /\ \A i \in DOMAIN call.allResults :
             \E s \in SucceededFor(r) :
               /\ call.gstate[s] = "done"
               /\ call.allResults[i] \in Range(call.returned[s].results)
        /\ Len(call.allResults) = Cardinality(SucceededFor(r))
        /\ (call.pc = "done" /\ call.targetShardIDs # <<>>) =>
             /\ call.ret.err = NoErr
             /\ call.ret.results = Deduplicate(call.allResults)
             /\ \A i \in DOMAIN call.ret.results :
                  call.ret.results[i].Title[2] = r
             /\ (SucceededFor(r) # {}) = (call.ret.results # <<>>)

\* both calls have returned: every Searcher of the first call failed and its
\* output is empty, while the second call, dispatched to the same two
\* Searchers, returned a result
C40_Witness ==
  /\ \A r \in Requests : requests[r].pc = "done"
  /\ FailedFor(1) = {1, 2}
  /\ requests[1].ret.results = <<>>
  /\ SucceededFor(2) = {1, 2}
  /\ Len(requests[2].ret.results) = 1

====
